---- MODULE Spec2Model ----
(***************************************************************************)
(* PolitePing (src/politeping/app): the concurrent probing engine.         *)
(*                                                                         *)
(* Checker.check_one is an asyncio coroutine.  Between two suspension      *)
(* points (a network call, a sleep, a blocked permit) it runs atomically,  *)
(* so every action below is one such segment of check_one, from the point  *)
(* where the coroutine is resumed to the point where it suspends again or  *)
(* returns.  api_status awaits check_one for each endpoint in list order;  *)
(* several api_status requests may be in progress on the same event loop.  *)
(*                                                                         *)
(* Clocks are counted in ticks.  The configured intervals keep their       *)
(* order (TTFB SLA < host interval < endpoint interval < robots TTL) but   *)
(* are scaled to a few ticks.  Latencies are measured in seconds.          *)
(***************************************************************************)
EXTENDS Naturals, Integers, Sequences, FiniteSets, TLC

VARIABLES
    endpoints,        \* main.py: the endpoint list loaded at start
    mono,             \* the clock: time.monotonic() and time.time()
    last_host_check,  \* RateState.last_host_check
    last_ep_check,    \* RateState.last_ep_check
    global_sem,       \* RateState.global_sem, the number of free permits
    host_sems,        \* RateState.host_sems, free permits per created pool
    cache,            \* robots._CACHE
    last_result,      \* Checker.last_result
    req,              \* the api_status requests and their check_one call
    marked,           \* history: the hosts and keys mark was called for
    issued,           \* history: time of the last primary probe per key
    rs_call,          \* the last direct call of RateState.allowed_now
    rb_call,          \* the last direct call of robots.check_robots_allow
    keywords_cfg,     \* Checker.keywords_cfg, loaded at construction
    fn_call           \* the last direct call of a function of the scan

vars == <<endpoints, mono, last_host_check, last_ep_check, global_sem, host_sems,
          cache, last_result, req, marked, issued, rs_call, rb_call,
          keywords_cfg, fn_call>>

----------------------------------------------------------------------------
(* Bounds of the model *)

MaxTime == 4
MaxSnapshots == 3
MaxCycles == 2
MaxInterval == 2
MaxTextLen == 3
MaxItems == 3
MaxLines == 3

(* Settings (config.py), in ticks except the SLA, which is in seconds *)

TTFB_SLA_S == 8
HOST_MIN_INTERVAL_S == 1
EP_MIN_INTERVAL_S == 2
GLOBAL_MAX_CONCURRENCY == 2
PER_HOST_CONCURRENCY == 1
_TTL == 3

None == -1
NoneStr == "null"

----------------------------------------------------------------------------
(* Endpoints (endpoints.py) and urlparse *)

EpA == [name |-> "a", url |-> "https://h1/"]
EpB == [name |-> "b", url |-> "https://h1/p"]
EpC == [name |-> "c", url |-> "https://h2/"]

Urls == {EpA.url, EpB.url, EpC.url}

host_of(url) ==
    CASE url = "https://h1/"  -> "h1"
      [] url = "https://h1/p" -> "h1"
      [] url = "https://h2/"  -> "h2"

path_of(url) ==
    CASE url = "https://h1/"  -> <<"/">>
      [] url = "https://h1/p" -> <<"/", "p">>
      [] url = "https://h2/"  -> <<"/">>

Hosts == {host_of(u) : u \in Urls}

Requests == {"r1", "r2", "r3"}

----------------------------------------------------------------------------
(* robots.py.  Paths, rule values and user-agent values are sequences of
   characters; a robots.txt body is the sequence of its lines, each split
   at the first colon into a field name k and a value v. *)

\* _rule_to_re(rule).search(path): the rule anchored at the start of the
\* path, "*" standing for any run of characters
RECURSIVE _rule_matches(_, _)
_rule_matches(rule, path) ==
    IF rule = <<>> THEN TRUE
    ELSE IF Head(rule) = "*"
         THEN \E k \in 0..Len(path) :
                  _rule_matches(Tail(rule), SubSeq(path, k + 1, Len(path)))
         ELSE /\ path # <<>>
              /\ Head(path) = Head(rule)
              /\ _rule_matches(Tail(rule), Tail(path))

Max(a, b) == IF a >= b THEN a ELSE b

RECURSIVE _longest_match(_, _)
_longest_match(path, rules) ==
    IF rules = <<>> THEN -1
    ELSE LET rest == _longest_match(path, Tail(rules))
         IN  IF _rule_matches(Head(rules), path)
             THEN Max(rest, Len(Head(rules)))
             ELSE rest

_allowed_strict(path, allows, disallows) ==
    LET a == _longest_match(path, allows)
        d == _longest_match(path, disallows)
    IN  IF a < 0 /\ d < 0 THEN TRUE ELSE a > d

_allowed(path, allows, disallows) ==
    LET a == _longest_match(path, allows)
        d == _longest_match(path, disallows)
    IN  IF a < 0 /\ d < 0 THEN TRUE ELSE a >= d

\* A line of robots.txt is the sequence of its pieces: the words of field
\* names and agents, ":", "#", blanks and the characters of paths.
IsSpace(c) == c \in {" ", "\t"}

RECURSIVE lstrip(_)
lstrip(t) ==
    IF t # <<>> /\ IsSpace(Head(t)) THEN lstrip(Tail(t)) ELSE t

RECURSIVE rstrip(_)
rstrip(t) ==
    IF t # <<>> /\ IsSpace(t[Len(t)])
    THEN rstrip(SubSeq(t, 1, Len(t) - 1)) ELSE t

strip(t) == rstrip(lstrip(t))

\* k.lower() on a word
lower(k) ==
    CASE k = "User-agent" -> "user-agent"
      [] k = "USER-AGENT" -> "user-agent"
      [] k = "Disallow"   -> "disallow"
      [] k = "Allow"      -> "allow"
      [] OTHER            -> k

\* s.split(c, 1): what stands before the first c, and what stands after it
RECURSIVE before(_, _)
before(s, c) ==
    IF s = <<>> \/ Head(s) = c THEN <<>>
    ELSE <<Head(s)>> \o before(Tail(s), c)

RECURSIVE after(_, _)
after(s, c) ==
    IF s = <<>> THEN <<>>
    ELSE IF Head(s) = c THEN Tail(s) ELSE after(Tail(s), c)

\* one iteration of the loop of _parse; st = [in_star, allows, disallows]
_parse_line_keep_empty(st, raw) ==
    LET line == strip(before(raw, "#"))
        k == [i \in DOMAIN strip(before(line, ":")) |->
                 lower(strip(before(line, ":"))[i])]
        v == strip(after(line, ":"))
    IN  IF line = <<>> \/ ~\E i \in DOMAIN line : line[i] = ":" THEN st
        ELSE IF k = <<"user-agent">>
        THEN [st EXCEPT !.in_star = (v = <<"*">>)]
        ELSE IF st.in_star /\ k \in {<<"allow">>, <<"disallow">>}
             THEN IF k = <<"allow">>
                  THEN [st EXCEPT !.allows = Append(@, v)]
                  ELSE [st EXCEPT !.disallows = Append(@, v)]
             ELSE st

_parse_line(st, raw) ==
    LET line == strip(before(raw, "#"))
        k == [i \in DOMAIN strip(before(line, ":")) |->
                 lower(strip(before(line, ":"))[i])]
        v == strip(after(line, ":"))
    IN  IF line = <<>> \/ ~\E i \in DOMAIN line : line[i] = ":" THEN st
        ELSE IF k = <<"user-agent">>
        THEN [st EXCEPT !.in_star = (v = <<"*">>)]
        ELSE IF st.in_star /\ k \in {<<"allow">>, <<"disallow">>}
                    /\ v # <<>>
             THEN IF k = <<"allow">>
                  THEN [st EXCEPT !.allows = Append(@, v)]
                  ELSE [st EXCEPT !.disallows = Append(@, v)]
             ELSE st

RECURSIVE _parse_from(_, _)
_parse_from(st, txt) ==
    IF txt = <<>> THEN st
    ELSE _parse_from(_parse_line(st, Head(txt)), Tail(txt))

_parse(txt) ==
    LET st == _parse_from([in_star |-> FALSE, allows |-> <<>>,
                           disallows |-> <<>>], txt)
    IN  [policy |-> "parsed", allows |-> st.allows,
         disallows |-> st.disallows]

\* what a host can answer to GET /robots.txt; status None is a network
\* failure (the except branch)
RobotsReplies ==
    { [status |-> 200, text |-> << <<"User-agent", ":", " ", "*">>,
                                   <<"Disallow", ":", " ", "/", "p">> >>],
      [status |-> 404, text |-> <<>>],
      [status |-> None, text |-> <<>>] }

\* the record built from the reply (robots.py 53-60)
robots_record(r) ==
    IF r.status = 200 THEN _parse(r.text)
    ELSE IF r.status = 404
         THEN [policy |-> "allow", allows |-> <<>>, disallows |-> <<>>]
         ELSE [policy |-> "unknown", allows |-> <<>>, disallows |-> <<>>]

\* the decision computed from a record (robots.py 63-70)
robots_decision_block_unknown(rb, path) ==
    IF rb.policy = "parsed"
    THEN IF _allowed(path, rb.allows, rb.disallows)
         THEN "ALLOW" ELSE "DISALLOW"
    ELSE IF rb.policy = "allow" THEN "ALLOW"
    ELSE IF rb.policy = "unknown" THEN "DISALLOW"
    ELSE "ALLOW"

robots_decision(rb, path) ==
    IF rb.policy = "parsed"
    THEN IF _allowed(path, rb.allows, rb.disallows)
         THEN "ALLOW" ELSE "DISALLOW"
    ELSE IF rb.policy = "allow" THEN "ALLOW"
    ELSE IF rb.policy = "unknown" THEN "UNKNOWN"
    ELSE "ALLOW"

NoCache == [at |-> None, rb |-> [policy |-> "none", allows |-> <<>>,
                                 disallows |-> <<>>]]

\* cached and (now - cached[0] < _TTL)
cache_fresh_inclusive(host, now) ==
    cache[host] # NoCache /\ now - cache[host].at <= _TTL

cache_fresh(host, now) ==
    cache[host] # NoCache /\ now - cache[host].at < _TTL

\* _CACHE[host] = (now, rb)
cache_store_unless_unknown(host, now, rb) ==
    IF rb.policy = "unknown" THEN cache
    ELSE [cache EXCEPT ![host] = [at |-> now, rb |-> rb]]

cache_store(host, now, rb) ==
    [cache EXCEPT ![host] = [at |-> now, rb |-> rb]]

----------------------------------------------------------------------------
(* checker.py: text normalisation and keyword scan.  Texts are sequences
   of characters over a small alphabet. *)

keywords_json ==
    [ global_keywords |-> << <<"d", " ", "n">> >>,
      domains         |-> <<>>,
      regex_keywords  |-> <<>>,
      settings        |-> [case_insensitive |-> TRUE,
                           normalize_whitespace |-> TRUE] ]

lower_char(c) ==
    CASE c = "D" -> "d"
      [] c = "H" -> "h"
      [] c = "N" -> "n"
      [] c = "O" -> "o"
      [] c = "K" -> "k"
      [] OTHER   -> c

RECURSIVE lower_text(_)
lower_text(t) ==
    IF t = <<>> THEN <<>> ELSE <<lower_char(Head(t))>> \o lower_text(Tail(t))

\* re.sub(r"\s+", " ", text): every run of whitespace becomes one space
RECURSIVE collapse_ws(_)
collapse_ws(t) ==
    IF t = <<>> THEN <<>>
    ELSE IF IsSpace(Head(t))
         THEN IF Len(t) > 1 /\ IsSpace(t[2])
              THEN collapse_ws(Tail(t))
              ELSE <<" ">> \o collapse_ws(Tail(t))
         ELSE <<Head(t)>> \o collapse_ws(Tail(t))

\* unicodedata.normalize("NFKC", text) on the alphabet: the no-break
\* space U+00A0 becomes a space, h followed by the combining macron below
\* U+0331 is composed into U+1E96; H with U+0331 has no composed form and
\* every other character stays
RECURSIVE nfkc(_)
nfkc(t) ==
    IF t = <<>> THEN <<>>
    ELSE IF Head(t) = "U+00A0" THEN <<" ">> \o nfkc(Tail(t))
    ELSE IF Len(t) > 1 /\ t[1] = "h" /\ t[2] = "U+0331"
         THEN <<"U+1E96">> \o nfkc(Tail(Tail(t)))
    ELSE <<Head(t)>> \o nfkc(Tail(t))

_normalize_text(text) ==
    LET nf == nfkc(text)
        ws == IF keywords_cfg.settings.normalize_whitespace
              THEN strip(collapse_ws(nf)) ELSE nf
    IN  IF keywords_cfg.settings.case_insensitive THEN lower_text(ws) ELSE ws

\* keyword in text
Contains(text, kw) ==
    \E i \in 1..(Len(text) - Len(kw) + 1) :
        SubSeq(text, i, i + Len(kw) - 1) = kw

\* urlparse(url).netloc.lower() (checker.py 47-53)
_extract_domain(url) ==
    CASE url = "https://h1/"  -> <<"h", "1">>
      [] url = "https://h1/p" -> <<"h", "1">>
      [] url = "https://h2/"  -> <<"h", "2">>

\* s.startswith(p)
startswith(s, p) == Len(s) >= Len(p) /\ SubSeq(s, 1, Len(p)) = p

\* s.endswith(p)
endswith_anywhere(s, p) == Contains(s, p)

endswith(s, p) ==
    Len(s) >= Len(p) /\ SubSeq(s, Len(s) - Len(p) + 1, Len(s)) = p

\* the domains map of the keyword file is the sequence of its items
\* [pattern, keywords] in the order of the file, no pattern twice;
\* domains_cfg[domain] when domain in domains_cfg
RECURSIVE exact_keywords(_, _)
exact_keywords(items, domain) ==
    IF items = <<>> THEN <<>>
    ELSE IF Head(items).pattern = domain THEN Head(items).keywords
    ELSE exact_keywords(Tail(items), domain)

\* the loop over domains_cfg.items() (checker.py 65-67)
RECURSIVE wildcard_keywords(_, _)
wildcard_keywords(items, domain) ==
    IF items = <<>> THEN <<>>
    ELSE LET pattern == Head(items).pattern
             kw_list == Head(items).keywords
         IN  (IF startswith(pattern, <<"*", ".">>)
                    /\ endswith(domain, Tail(pattern))
              THEN kw_list ELSE <<>>)
                 \o wildcard_keywords(Tail(items), domain)

_get_domain_keywords_exact_first(domain) ==
    IF exact_keywords(keywords_cfg.domains, domain) # <<>>
    THEN exact_keywords(keywords_cfg.domains, domain)
    ELSE wildcard_keywords(keywords_cfg.domains, domain)

_get_domain_keywords(domain) ==
    exact_keywords(keywords_cfg.domains, domain)
        \o wildcard_keywords(keywords_cfg.domains, domain)

RECURSIVE scan_keywords_first(_, _, _)
scan_keywords_first(kws, content_norm, title_norm) ==
    IF kws = <<>> THEN <<>>
    ELSE LET keyword == Head(kws)
             keyword_norm == IF keywords_cfg.settings.case_insensitive
                             THEN lower_text(keyword) ELSE keyword
             tag == IF keyword = <<>> THEN <<>>
                    ELSE IF Contains(content_norm, keyword_norm)
                         THEN << <<"CONTENT", keyword>> >>
                    ELSE IF title_norm # <<>>
                            /\ Contains(title_norm, keyword_norm)
                         THEN << <<"TITLE", keyword>> >>
                    ELSE <<>>
         IN  IF tag # <<>> THEN tag
             ELSE scan_keywords_first(Tail(kws), content_norm, title_norm)

\* the loop over all_keywords (checker.py 144-153)
RECURSIVE scan_keywords(_, _, _)
scan_keywords(kws, content_norm, title_norm) ==
    IF kws = <<>> THEN <<>>
    ELSE LET keyword == Head(kws)
             keyword_norm == IF keywords_cfg.settings.case_insensitive
                             THEN lower_text(keyword) ELSE keyword
             tag == IF keyword = <<>> THEN <<>>
                    ELSE IF Contains(content_norm, keyword_norm)
                         THEN << <<"CONTENT", keyword>> >>
                    ELSE IF title_norm # <<>>
                            /\ Contains(title_norm, keyword_norm)
                         THEN << <<"TITLE", keyword>> >>
                    ELSE <<>>
         IN  tag \o scan_keywords(Tail(kws), content_norm, title_norm)

\* re.compile(pattern_str) raises re.error: the patterns of the model are
\* literal characters, or hold a "(" that nothing closes
re_error(pattern_str) ==
    \E i \in DOMAIN pattern_str :
        /\ pattern_str[i] = "("
        /\ ~\E j \in (i + 1)..Len(pattern_str) : pattern_str[j] = ")"

\* the compiled patterns, each with the string it was compiled from; only
\* re.IGNORECASE changes what a literal pattern finds
RECURSIVE compile_items_abort(_)
compile_items_abort(items) ==
    IF items = <<>> THEN <<>>
    ELSE LET item == Head(items)
             ignorecase ==
                 \/ \E i \in DOMAIN item.flags : item.flags[i] = "i"
                 \/ keywords_cfg.settings.case_insensitive
         IN  IF re_error(item.pattern) THEN <<>>
             ELSE << [pattern_str |-> item.pattern,
                      ignorecase |-> ignorecase] >>
                      \o compile_items_abort(Tail(items))

RECURSIVE compile_items(_)
compile_items(items) ==
    IF items = <<>> THEN <<>>
    ELSE LET item == Head(items)
             ignorecase ==
                 \/ \E i \in DOMAIN item.flags : item.flags[i] = "i"
                 \/ keywords_cfg.settings.case_insensitive
         IN  (IF re_error(item.pattern) THEN <<>>
              ELSE << [pattern_str |-> item.pattern,
                       ignorecase |-> ignorecase] >>)
                 \o compile_items(Tail(items))

_compile_regex_patterns == compile_items(keywords_cfg.regex_keywords)

\* pattern.search(text) is not None, for a literal pattern
search(pattern, text) ==
    IF pattern.ignorecase
    THEN Contains(lower_text(text), lower_text(pattern.pattern_str))
    ELSE Contains(text, pattern.pattern_str)

\* the loop over regex_patterns (checker.py 156-161)
RECURSIVE scan_regex(_, _, _)
scan_regex(patterns, content_norm, title_norm) ==
    IF patterns = <<>> THEN <<>>
    ELSE LET pattern == Head(patterns)
             tag == IF search(pattern, content_norm)
                    THEN << <<"REGEX_CONTENT", pattern.pattern_str>> >>
                    ELSE IF title_norm # <<>> /\ search(pattern, title_norm)
                         THEN << <<"REGEX_TITLE", pattern.pattern_str>> >>
                    ELSE <<>>
         IN  tag \o scan_regex(Tail(patterns), content_norm, title_norm)

_check_negative_keywords(content, title, domain) ==
    LET content_norm == _normalize_text(content)
        title_norm == IF title # <<>> THEN _normalize_text(title) ELSE <<>>
        all_keywords == keywords_cfg.global_keywords
                            \o _get_domain_keywords(domain)
    IN  scan_keywords(all_keywords, content_norm, title_norm)
            \o scan_regex(_compile_regex_patterns, content_norm, title_norm)

\* ";".join(tags)
RECURSIVE join(_)
join(tags) ==
    IF tags = <<>> THEN <<>>
    ELSE IF Len(tags) = 1 THEN <<Head(tags)>>
    ELSE <<Head(tags), ";">> \o join(Tail(tags))

\* hashlib.sha256(content).hexdigest()[:16]
sha256_16(content) == <<"sha256">> \o content

\* what the content GET can bring back: None is a failed request
Pages ==
    { [status |-> 200, content |-> <<"o", "k">>, title |-> <<"o">>],
      [status |-> 200, content |-> <<"D", " ", "\t", "N">>, title |-> <<>>],
      [status |-> 200, content |-> <<>>, title |-> <<>>],
      [status |-> None, content |-> <<>>, title |-> <<>>] }

\* the measured latencies of the primary probe
Latencies == {TTFB_SLA_S, TTFB_SLA_S + 1}

----------------------------------------------------------------------------
(* rate_limit.py *)

NoSem == -1

\* now - last_host_check[host] >= host_interval and
\* now - last_ep_check[ep_key] >= ep_interval
allowed_now_strict(now, last_host, last_ep, host_interval, ep_interval) ==
    (now - last_host > host_interval) /\ (now - last_ep > ep_interval)

allowed_now_at(now, last_host, last_ep, host_interval, ep_interval) ==
    (now - last_host >= host_interval) /\ (now - last_ep >= ep_interval)

allowed_now(host, ep_key, host_interval, ep_interval) ==
    allowed_now_at(mono, last_host_check[host], last_ep_check[ep_key],
                   host_interval, ep_interval)

\* host_sems[h] of the defaultdict: the stored pool, or a new pool of
\* per_host_conc permits when the host has none yet
host_sem_fresh(stored) == PER_HOST_CONCURRENCY

host_sem(stored) ==
    IF stored = NoSem THEN PER_HOST_CONCURRENCY ELSE stored

\* Semaphore.release() at the exit of the async with block
sem_release_lost(value) == value

sem_release(value) == value + 1

\* mark(host, ep_key)
mark_host_only(host, ep_key) ==
    /\ last_host_check' = [last_host_check EXCEPT ![host] = mono]
    /\ last_ep_check' = last_ep_check
    /\ marked' = marked \cup {host, ep_key}

mark_ep_only(host, ep_key) ==
    /\ last_host_check' = last_host_check
    /\ last_ep_check' = [last_ep_check EXCEPT ![ep_key] = mono]
    /\ marked' = marked \cup {host, ep_key}

mark(host, ep_key) ==
    /\ last_host_check' = [last_host_check EXCEPT ![host] = mono]
    /\ last_ep_check' = [last_ep_check EXCEPT ![ep_key] = mono]
    /\ marked' = marked \cup {host, ep_key}

----------------------------------------------------------------------------
(* checker.py: check_one *)

NoRecord == [outcome |-> NoneStr]

NoCounts == [robots |-> 0, gate |-> 0, acq |-> 0, head |-> 0, get |-> 0,
             content |-> 0, mark |-> 0]

Idle == [pc |-> "idle", idx |-> 0, cycles |-> 0, now |-> None,
         decision |-> NoneStr, code |-> None, ttfb |-> 0, err |-> NoneStr,
         hasG |-> FALSE, hasH |-> FALSE, ret |-> NoRecord,
         results |-> <<>>, n |-> NoCounts, recv |-> <<>>]

\* history: the call has received the answer (status, elapsed) to its
\* request of the given kind; status None is a failed request
received(q, kind, status, elapsed) ==
    [q EXCEPT !.recv = Append(@, [kind |-> kind, status |-> status,
                                  elapsed |-> elapsed])]

\* history: the call has received the answer to its content request, a
\* page with this body
received_page(q, page) ==
    [q EXCEPT !.recv = Append(@, [kind |-> "content",
                                  status |-> page.status, elapsed |-> 0,
                                  body |-> page.content])]

\* decision or "allow"
decision_or_allow_always(decision) == "allow"

decision_or_allow(decision) ==
    IF decision = "" THEN "allow" ELSE decision

lower_decision(d) ==
    CASE d = "ALLOW"    -> "allow"
      [] d = "DISALLOW" -> "disallow"
      [] d = "UNKNOWN"  -> "unknown"
      [] OTHER          -> d

\* the record of lines 239-240
disallowed_record(ep) ==
    [name |-> ep.name, url |-> ep.url, http |-> None, ttfb_ms |-> 0,
     outcome |-> "DISALLOWED", error |-> NoneStr, ts |-> mono,
     robots |-> "parsed"]

\* prev.get(key, default) on prev = last_result.get(ep_key, {})
prev_get_default(prev, key, default) == default

prev_get(prev, key, default) ==
    IF key \in DOMAIN prev THEN prev[key] ELSE default

\* the record of lines 243-249
skipped_record(ep) ==
    LET prev == IF last_result[ep.url] = NoRecord
                THEN [x \in {} |-> None] ELSE last_result[ep.url]
    IN  [name |-> ep.name, url |-> ep.url, outcome |-> "SKIPPED",
         skipped |-> TRUE,
         http |-> prev_get(prev, "http", None),
         ttfb_ms |-> prev_get(prev, "ttfb_ms", 0),
         last_outcome |-> prev_get(prev, "outcome", NoneStr),
         last_ts |-> prev_get(prev, "ts", None),
         ts |-> mono, robots |-> "allow"]

\* lines 272-282
classify_strict(code, matched_keywords, ttfb) ==
    IF code # None /\ 200 <= code /\ code < 400
    THEN IF matched_keywords # <<>>
         THEN [outcome |-> "UNHEALTHY", matched |-> matched_keywords]
         ELSE [outcome |-> IF ttfb < TTFB_SLA_S THEN "OK" ELSE "UNSTABLE",
               matched |-> matched_keywords]
    ELSE IF code # None
         THEN [outcome |-> IF code >= 500 THEN "HTTP5xx" ELSE "HTTP4xx",
               matched |-> << <<"HTTP", code>> >>]
         ELSE [outcome |-> "ERROR", matched |-> << <<"CONNECTION_ERROR">> >>]

classify_5xx_strict(code, matched_keywords, ttfb) ==
    IF code # None /\ 200 <= code /\ code < 400
    THEN IF matched_keywords # <<>>
         THEN [outcome |-> "UNHEALTHY", matched |-> matched_keywords]
         ELSE [outcome |-> IF ttfb <= TTFB_SLA_S THEN "OK" ELSE "UNSTABLE",
               matched |-> matched_keywords]
    ELSE IF code # None
         THEN [outcome |-> IF code > 500 THEN "HTTP5xx" ELSE "HTTP4xx",
               matched |-> << <<"HTTP", code>> >>]
         ELSE [outcome |-> "ERROR", matched |-> << <<"CONNECTION_ERROR">> >>]

classify(code, matched_keywords, ttfb) ==
    IF code # None /\ 200 <= code /\ code < 400
    THEN IF matched_keywords # <<>>
         THEN [outcome |-> "UNHEALTHY", matched |-> matched_keywords]
         ELSE [outcome |-> IF ttfb <= TTFB_SLA_S THEN "OK" ELSE "UNSTABLE",
               matched |-> matched_keywords]
    ELSE IF code # None
         THEN [outcome |-> IF code >= 500 THEN "HTTP5xx" ELSE "HTTP4xx",
               matched |-> << <<"HTTP", code>> >>]
         ELSE [outcome |-> "ERROR", matched |-> << <<"CONNECTION_ERROR">> >>]

\* the record of lines 284-289
result_record_no_error(ep, q, matched_keywords, title, content_hash) ==
    LET c == classify(q.code, matched_keywords, q.ttfb)
    IN  [name |-> ep.name, url |-> ep.url, http |-> q.code,
         ttfb_ms |-> q.ttfb * 1000, outcome |-> c.outcome,
         error |-> NoneStr, ts |-> mono,
         robots |-> lower_decision(decision_or_allow(q.decision)),
         matched_keywords |-> join(c.matched), title |-> title,
         content_sha256 |-> content_hash]

result_record_needs_content(ep, q, matched_keywords, title, content_hash) ==
    LET c == classify(q.code, matched_keywords, q.ttfb)
    IN  [name |-> ep.name, url |-> ep.url, http |-> q.code,
         ttfb_ms |-> q.ttfb * 1000,
         outcome |-> IF q.code = 200 /\ content_hash = <<>>
                     THEN "ERROR" ELSE c.outcome,
         error |-> q.err, ts |-> mono,
         robots |-> lower_decision(decision_or_allow(q.decision)),
         matched_keywords |-> join(c.matched), title |-> title,
         content_sha256 |-> content_hash]

result_record(ep, q, matched_keywords, title, content_hash) ==
    LET c == classify(q.code, matched_keywords, q.ttfb)
    IN  [name |-> ep.name, url |-> ep.url, http |-> q.code,
         ttfb_ms |-> q.ttfb * 1000, outcome |-> c.outcome,
         error |-> q.err, ts |-> mono,
         robots |-> lower_decision(decision_or_allow(q.decision)),
         matched_keywords |-> join(c.matched), title |-> title,
         content_sha256 |-> content_hash]

\* check_one returns rec to api_status
return_retry(q, rec) ==
    IF rec.outcome = "ERROR" /\ q.n.head < 2
    THEN [q EXCEPT !.pc = "sleep"]
    ELSE [q EXCEPT !.pc = "returned", !.ret = rec, !.now = None,
                   !.code = None, !.ttfb = 0, !.err = NoneStr]

return(q, rec) ==
    [q EXCEPT !.pc = "returned", !.ret = rec, !.now = None,
              !.code = None, !.ttfb = 0, !.err = NoneStr]

\* lines 284-291: classification, the last-result entry and the return
finish_unless_error(r, q, matched_keywords, title, content_hash) ==
    LET ep == endpoints[q.idx]
        res == result_record(ep, q, matched_keywords, title, content_hash)
    IN  /\ last_result' = IF res.outcome = "ERROR" THEN last_result
                          ELSE [last_result EXCEPT ![ep.url] = res]
        /\ req' = [req EXCEPT ![r] = return(q, res)]

finish(r, q, matched_keywords, title, content_hash) ==
    LET ep == endpoints[q.idx]
        res == result_record(ep, q, matched_keywords, title, content_hash)
    IN  /\ last_result' = [last_result EXCEPT ![ep.url] = res]
        /\ req' = [req EXCEPT ![r] = return(q, res)]

\* line 254 to the end of the permit section, then lines 256-266: the
\* primary probe gave (code, ttfb, err)
end_probe_2xx(r, q, code, ttfb, err) ==
    LET ep == endpoints[q.idx]
        h == host_of(ep.url)
        q1 == [q EXCEPT !.code = code, !.ttfb = ttfb, !.err = err,
                        !.hasG = FALSE, !.hasH = FALSE, !.n.mark = @ + 1]
    IN  /\ mark(h, ep.url)
        /\ host_sems' = [host_sems EXCEPT ![h] = sem_release(@)]
        /\ global_sem' = sem_release(global_sem)
        /\ IF code # None /\ 200 <= code /\ code < 300
           THEN /\ req' = [req EXCEPT ![r] = [q1 EXCEPT !.pc = "content",
                                                        !.n.content = @ + 1]]
                /\ UNCHANGED last_result
           ELSE finish(r, q1, <<>>, <<>>, <<>>)

end_probe_mark_on_answer(r, q, code, ttfb, err) ==
    LET ep == endpoints[q.idx]
        h == host_of(ep.url)
        q1 == [q EXCEPT !.code = code, !.ttfb = ttfb, !.err = err,
                        !.hasG = FALSE, !.hasH = FALSE, !.n.mark = @ + 1]
    IN  /\ IF code = None
           THEN UNCHANGED <<last_host_check, last_ep_check, marked>>
           ELSE mark(h, ep.url)
        /\ host_sems' = [host_sems EXCEPT ![h] = sem_release(@)]
        /\ global_sem' = sem_release(global_sem)
        /\ IF code = 200
           THEN /\ req' = [req EXCEPT ![r] = [q1 EXCEPT !.pc = "content",
                                                        !.n.content = @ + 1]]
                /\ UNCHANGED last_result
           ELSE finish(r, q1, <<>>, <<>>, <<>>)

end_probe_keep_on_error(r, q, code, ttfb, err) ==
    LET ep == endpoints[q.idx]
        h == host_of(ep.url)
        q1 == [q EXCEPT !.code = code, !.ttfb = ttfb, !.err = err,
                        !.hasG = FALSE, !.hasH = (code = None),
                        !.n.mark = @ + 1]
    IN  /\ mark(h, ep.url)
        /\ host_sems' = IF code = None THEN host_sems
                        ELSE [host_sems EXCEPT ![h] = sem_release(@)]
        /\ global_sem' = sem_release(global_sem)
        /\ IF code = 200
           THEN /\ req' = [req EXCEPT ![r] = [q1 EXCEPT !.pc = "content",
                                                        !.n.content = @ + 1]]
                /\ UNCHANGED last_result
           ELSE finish(r, q1, <<>>, <<>>, <<>>)

end_probe(r, q, code, ttfb, err) ==
    LET ep == endpoints[q.idx]
        h == host_of(ep.url)
        q1 == [q EXCEPT !.code = code, !.ttfb = ttfb, !.err = err,
                        !.hasG = FALSE, !.hasH = FALSE, !.n.mark = @ + 1]
    IN  /\ mark(h, ep.url)
        /\ host_sems' = [host_sems EXCEPT ![h] = sem_release(@)]
        /\ global_sem' = sem_release(global_sem)
        /\ IF code = 200
           THEN /\ req' = [req EXCEPT ![r] = [q1 EXCEPT !.pc = "content",
                                                        !.n.content = @ + 1]]
                /\ UNCHANGED last_result
           ELSE finish(r, q1, <<>>, <<>>, <<>>)

\* entering host_sems[h] (line 251, second context manager)
acquire_host_no_pause(r, q) ==
    LET h == host_of(endpoints[q.idx].url)
        v == host_sem(host_sems[h])
    IN  IF v > 0
        THEN /\ host_sems' = [host_sems EXCEPT ![h] = v - 1]
             /\ req' = [req EXCEPT ![r] = [q EXCEPT !.pc = "head",
                                                    !.hasH = TRUE,
                                                    !.n.acq = @ + 1,
                                                    !.n.head = @ + 1]]
        ELSE /\ host_sems' = [host_sems EXCEPT ![h] = v]
             /\ req' = [req EXCEPT ![r] = [q EXCEPT !.pc = "wait_host"]]

acquire_host(r, q) ==
    LET h == host_of(endpoints[q.idx].url)
        v == host_sem(host_sems[h])
    IN  IF v > 0
        THEN /\ host_sems' = [host_sems EXCEPT ![h] = v - 1]
             /\ req' = [req EXCEPT ![r] = [q EXCEPT !.pc = "sleep",
                                                    !.hasH = TRUE,
                                                    !.n.acq = @ + 1]]
        ELSE /\ host_sems' = [host_sems EXCEPT ![h] = v]
             /\ req' = [req EXCEPT ![r] = [q EXCEPT !.pc = "wait_host"]]

\* entering global_sem, then host_sems[h] (line 251)
acquire(r, q) ==
    IF global_sem > 0
    THEN /\ global_sem' = global_sem - 1
         /\ acquire_host(r, [q EXCEPT !.hasG = TRUE, !.n.acq = @ + 1])
    ELSE /\ req' = [req EXCEPT ![r] = [q EXCEPT !.pc = "wait_global"]]
         /\ UNCHANGED <<global_sem, host_sems>>

\* lines 238-251, once the robots decision is known
gate_rate_first(r, q, decision) ==
    LET ep == endpoints[q.idx]
        h == host_of(ep.url)
        q1 == [q EXCEPT !.decision = decision, !.n.gate = @ + 1]
    IN  IF ~allowed_now(h, ep.url, HOST_MIN_INTERVAL_S, EP_MIN_INTERVAL_S)
        THEN /\ req' = [req EXCEPT ![r] =
                   return(q1, IF decision = "DISALLOW"
                              THEN disallowed_record(ep)
                              ELSE skipped_record(ep))]
             /\ UNCHANGED <<global_sem, host_sems>>
        ELSE IF decision = "DISALLOW"
             THEN /\ req' = [req EXCEPT ![r] =
                        return(q1, disallowed_record(ep))]
                  /\ UNCHANGED <<global_sem, host_sems>>
             ELSE acquire(r, q1)

gate(r, q, decision) ==
    LET ep == endpoints[q.idx]
        h == host_of(ep.url)
        q1 == [q EXCEPT !.decision = decision]
    IN  IF decision = "DISALLOW"
        THEN /\ req' = [req EXCEPT ![r] = return(q1, disallowed_record(ep))]
             /\ UNCHANGED <<global_sem, host_sems>>
        ELSE IF ~allowed_now(h, ep.url, HOST_MIN_INTERVAL_S,
                             EP_MIN_INTERVAL_S)
             THEN /\ req' = [req EXCEPT ![r] =
                        return([q1 EXCEPT !.n.gate = @ + 1],
                               skipped_record(ep))]
                  /\ UNCHANGED <<global_sem, host_sems>>
             ELSE acquire(r, [q1 EXCEPT !.n.gate = @ + 1])

----------------------------------------------------------------------------
(* The actions: one per segment of check_one between two suspensions *)

\* results.append(result) (main.py 52); of a record the model keeps the
\* url and the outcome
collect_unless_error(results, rec) ==
    IF rec.outcome = "ERROR" THEN results
    ELSE Append(results, [url |-> rec.url, outcome |-> rec.outcome])

collect(results, rec) ==
    Append(results, [url |-> rec.url, outcome |-> rec.outcome])

\* the number of api_status requests started so far
RECURSIVE SumCycles(_)
SumCycles(rs) ==
    IF rs = {} THEN 0
    ELSE LET r == CHOOSE x \in rs : TRUE
         IN  req[r].cycles + SumCycles(rs \ {r})

Started == SumCycles(Requests)

\* api_status calls check_one for the next endpoint (main.py 49-50) and
\* check_one runs to its first suspension: the robots.txt request when the
\* cache has no fresh record (robots.py 45-52), else lines 238-252
Call(r) ==
    LET p == req[r]
        first == p.pc = "idle"
        i == IF first THEN 1 ELSE p.idx + 1
        ep == endpoints[i]
        h == host_of(ep.url)
        q == [p EXCEPT !.idx = i,
                       !.cycles = IF first THEN @ + 1 ELSE @,
                       !.results = IF first THEN <<>>
                                   ELSE collect(@, p.ret),
                       !.ret = NoRecord, !.decision = NoneStr,
                       !.n = NoCounts, !.recv = <<>>]
    IN  /\ p.pc \in {"idle", "returned"}
        /\ first => (Started < MaxSnapshots /\ p.cycles < MaxCycles)
        /\ i <= Len(endpoints)
        /\ IF cache_fresh(h, mono)
           THEN gate(r, q, robots_decision(cache[h].rb, path_of(ep.url)))
           ELSE /\ req' = [req EXCEPT ![r] = [q EXCEPT !.pc = "robots",
                                                       !.now = mono,
                                                       !.n.robots = @ + 1]]
                /\ UNCHANGED <<global_sem, host_sems>>
        /\ UNCHANGED <<endpoints, mono, last_host_check, last_ep_check, cache,
                       last_result, marked, issued, rs_call, rb_call,
                   keywords_cfg, fn_call>>

\* the robots.txt request ends (robots.py 53-70), then lines 238-252
RobotsReply(r, reply) ==
    LET q == req[r]
        ep == endpoints[q.idx]
        h == host_of(ep.url)
        rb == robots_record(reply)
    IN  /\ q.pc = "robots"
        /\ cache' = cache_store(h, q.now, rb)
        /\ gate(r, [received(q, "robots", reply.status, 0) EXCEPT
                        !.now = None],
                robots_decision(rb, path_of(ep.url)))
        /\ UNCHANGED <<endpoints, mono, last_host_check, last_ep_check, last_result,
                       marked, issued, rs_call, rb_call,
                   keywords_cfg, fn_call>>

\* a check waiting for the global permit gets it
WakeGlobal(r) ==
    /\ req[r].pc = "wait_global"
    /\ global_sem > 0
    /\ acquire(r, req[r])
    /\ UNCHANGED <<endpoints, mono, last_host_check, last_ep_check, cache, last_result,
                   marked, issued, rs_call, rb_call,
                   keywords_cfg, fn_call>>

\* a check waiting for the permit of its host gets it
WakeHost(r) ==
    /\ req[r].pc = "wait_host"
    /\ host_sem(host_sems[host_of(endpoints[req[r].idx].url)]) > 0
    /\ acquire_host(r, req[r])
    /\ UNCHANGED <<endpoints, mono, last_host_check, last_ep_check, global_sem, cache,
                   last_result, marked, issued, rs_call, rb_call,
                   keywords_cfg, fn_call>>

\* asyncio.sleep(0.2) is over: the HEAD request is sent (lines 252-253,
\* 204-213)
SendHead(r) ==
    LET q == req[r]
        ep == endpoints[q.idx]
    IN  /\ q.pc = "sleep"
        /\ req' = [req EXCEPT ![r] = [q EXCEPT !.pc = "head",
                                               !.n.head = @ + 1]]
        /\ issued' = [issued EXCEPT ![ep.url] = mono,
                                    ![host_of(ep.url)] = mono]
        /\ UNCHANGED <<endpoints, mono, last_host_check, last_ep_check, global_sem,
                       host_sems, cache, last_result, marked, rs_call, rb_call,
                   keywords_cfg, fn_call>>

\* the HEAD request ends with a status, or fails (status None): lines
\* 214-227, and lines 254-291 when the probe is over
HeadReply(r, status, elapsed) ==
    LET q == received(req[r], "head", status, elapsed)
    IN  /\ q.pc = "head"
        /\ IF status # None
           THEN end_probe(r, q, status, elapsed, NoneStr)
           ELSE IF decision_or_allow(q.decision) = "UNKNOWN"
                THEN end_probe(r, q, None, 0, "head failed")
                ELSE /\ req' = [req EXCEPT ![r] = [q EXCEPT !.pc = "get",
                                                       !.n.get = @ + 1]]
                     /\ UNCHANGED <<last_host_check, last_ep_check,
                                    global_sem, host_sems, last_result,
                                    marked>>
        /\ UNCHANGED <<endpoints, mono, cache, issued, rs_call, rb_call,
                   keywords_cfg, fn_call>>

\* the GET fallback ends (lines 228-232), then lines 254-291
GetReply(r, status, elapsed) ==
    LET q == received(req[r], "get", status, elapsed)
    IN  /\ q.pc = "get"
        /\ IF status # None
           THEN end_probe(r, q, status, elapsed, NoneStr)
           ELSE end_probe(r, q, None, 0, "get failed")
        /\ UNCHANGED <<endpoints, mono, cache, issued, rs_call, rb_call,
                   keywords_cfg, fn_call>>

\* the content GET ends (lines 178-201), then lines 268-291
ContentReply(r, page) ==
    LET q == received_page(req[r], page)
        ep == endpoints[q.idx]
        failed == page.status = None
        content == IF failed THEN <<>> ELSE page.content
        title == IF failed THEN <<>> ELSE page.title
        content_hash == IF failed THEN <<>> ELSE sha256_16(content)
        matched == IF content # <<>>
                   THEN _check_negative_keywords(content, title,
                                                 _extract_domain(ep.url))
                   ELSE <<>>
    IN  /\ q.pc = "content"
        /\ finish(r, q, matched, title, content_hash)
        /\ UNCHANGED <<endpoints, mono, last_host_check, last_ep_check, global_sem,
                       host_sems, cache, marked, issued, rs_call, rb_call,
                   keywords_cfg, fn_call>>

\* api_status has awaited the last endpoint and answers (main.py 54-67)
Respond(r) ==
    /\ req[r].pc = "returned"
    /\ req[r].idx = Len(endpoints)
    /\ req' = [req EXCEPT ![r] = [Idle EXCEPT !.cycles = req[r].cycles]]
    /\ UNCHANGED <<endpoints, mono, last_host_check, last_ep_check, global_sem,
                   host_sems, cache, last_result, marked, issued, rs_call, rb_call,
                   keywords_cfg, fn_call>>

\* the clocks advance
Tick ==
    /\ mono < MaxTime
    /\ mono' = mono + 1
    /\ UNCHANGED <<endpoints, last_host_check, last_ep_check, global_sem,
                   host_sems, cache, last_result, req, marked, issued,
                   rs_call, rb_call,
                   keywords_cfg, fn_call>>

\* The clock advances without end: times are kept relative to a window
\* of MaxTime ticks whose last tick is the present, so a tick moves every
\* stored time one tick into the past, and a time at the start of the
\* window stands for any earlier one (MaxTime is no less than the
\* intervals and the TTL). The count of requests starts again with the
\* tick.
shift(t) == IF t = None THEN None ELSE IF t > 0 THEN t - 1 ELSE 0

shift_record(rec) ==
    IF "last_ts" \in DOMAIN rec
    THEN [rec EXCEPT !.ts = shift(@), !.last_ts = shift(@)]
    ELSE IF "ts" \in DOMAIN rec THEN [rec EXCEPT !.ts = shift(@)]
    ELSE rec

Advance ==
    /\ mono = MaxTime
    /\ last_host_check' = [h \in Hosts |-> shift(last_host_check[h])]
    /\ last_ep_check' = [u \in Urls |-> shift(last_ep_check[u])]
    /\ cache' = [h \in Hosts |-> [cache[h] EXCEPT !.at = shift(@)]]
    /\ last_result' = [u \in Urls |-> shift_record(last_result[u])]
    /\ issued' = [k \in Urls \cup Hosts |-> shift(issued[k])]
    /\ req' = [r \in Requests |->
                  [req[r] EXCEPT !.now = shift(@),
                                 !.ret = shift_record(@),
                                 !.cycles = 0]]
    /\ UNCHANGED <<endpoints, mono, global_sem, host_sems, marked, rs_call,
                   rb_call, keywords_cfg, fn_call>>

NoCall == [host |-> NoneStr, ep_key |-> NoneStr, now |-> None,
           last_host |-> None, last_ep |-> None, host_interval |-> None,
           ep_interval |-> None, was_marked |-> FALSE, result |-> FALSE]

\* RateState.allowed_now called on its own
RsAllowedNow(host, ep_key, host_interval, ep_interval) ==
    /\ rs_call' = [host |-> host, ep_key |-> ep_key, now |-> mono,
                   last_host |-> last_host_check[host],
                   last_ep |-> last_ep_check[ep_key],
                   host_interval |-> host_interval,
                   ep_interval |-> ep_interval,
                   was_marked |-> {host, ep_key} \subseteq marked,
                   result |-> allowed_now(host, ep_key, host_interval,
                                          ep_interval)]
    /\ UNCHANGED <<endpoints, mono, last_host_check, last_ep_check,
                   global_sem, host_sems, cache, last_result, req, marked,
                   issued, rb_call,
                   keywords_cfg, fn_call>>

NoReply == [status |-> None, text |-> <<>>]

NoRbCall == [pc |-> "none", url |-> NoneStr, now |-> None,
             found |-> NoCache, fetched |-> FALSE, reply |-> NoReply,
             rb |-> NoCache.rb, decision |-> NoneStr]

\* check_robots_allow called on its own (robots.py 41-52): with a fresh
\* record in the cache it runs to its end, else it sends the robots.txt
\* request
RbCall(url) ==
    LET h == host_of(url)
        call == [NoRbCall EXCEPT !.url = url, !.now = mono,
                                 !.found = cache[h]]
    IN  /\ rb_call.pc # "fetch"
        /\ rb_call' =
              IF cache_fresh(h, mono)
              THEN [call EXCEPT !.pc = "done", !.rb = cache[h].rb,
                                !.decision = robots_decision(cache[h].rb,
                                                             path_of(url))]
              ELSE [call EXCEPT !.pc = "fetch", !.fetched = TRUE]
        /\ UNCHANGED <<endpoints, mono, last_host_check, last_ep_check,
                       global_sem, host_sems, cache, last_result, req,
                       marked, issued, rs_call,
                   keywords_cfg, fn_call>>

\* the robots.txt request of that call ends (robots.py 53-70)
RbReply(reply) ==
    LET h == host_of(rb_call.url)
        rb == robots_record(reply)
    IN  /\ rb_call.pc = "fetch"
        /\ cache' = cache_store(h, rb_call.now, rb)
        /\ rb_call' = [rb_call EXCEPT
                          !.pc = "done", !.reply = reply, !.rb = rb,
                          !.decision = robots_decision(rb,
                                           path_of(rb_call.url))]
        /\ UNCHANGED <<endpoints, mono, last_host_check, last_ep_check,
                       global_sem, host_sems, last_result, req, marked,
                       issued, rs_call,
                   keywords_cfg, fn_call>>

NoFnCall == [fn |-> "none", arg |-> <<>>, result |-> <<>>,
             again |-> FALSE]

\* Checker._normalize_text called on its own
Normalize(text) ==
    /\ fn_call' = [fn |-> "_normalize_text", arg |-> text,
                   result |-> _normalize_text(text), again |-> FALSE]
    /\ UNCHANGED <<endpoints, mono, last_host_check, last_ep_check,
                   global_sem, host_sems, cache, last_result, req, marked,
                   issued, rs_call, rb_call, keywords_cfg>>

\* Checker._normalize_text called on the text its last call returned
NormalizeAgain ==
    /\ fn_call.fn = "_normalize_text"
    /\ fn_call' = [fn |-> "_normalize_text", arg |-> fn_call.result,
                   result |-> _normalize_text(fn_call.result),
                   again |-> TRUE]
    /\ UNCHANGED <<endpoints, mono, last_host_check, last_ep_check,
                   global_sem, host_sems, cache, last_result, req, marked,
                   issued, rs_call, rb_call, keywords_cfg>>

\* Checker._get_domain_keywords called on its own
GetDomainKeywords(domain) ==
    /\ fn_call' = [fn |-> "_get_domain_keywords", arg |-> domain,
                   result |-> _get_domain_keywords(domain), again |-> FALSE]
    /\ UNCHANGED <<endpoints, mono, last_host_check, last_ep_check,
                   global_sem, host_sems, cache, last_result, req, marked,
                   issued, rs_call, rb_call, keywords_cfg>>

\* Checker._check_negative_keywords called on its own
CheckNegativeKeywords(content, title, domain) ==
    /\ fn_call' = [fn |-> "_check_negative_keywords",
                   arg |-> <<content, title, domain>>,
                   result |-> _check_negative_keywords(content, title,
                                                       domain),
                   again |-> FALSE]
    /\ UNCHANGED <<endpoints, mono, last_host_check, last_ep_check,
                   global_sem, host_sems, cache, last_result, req, marked,
                   issued, rs_call, rb_call, keywords_cfg>>

\* _parse called on its own
Parse(txt) ==
    /\ fn_call' = [fn |-> "_parse", arg |-> txt, result |-> _parse(txt),
                   again |-> FALSE]
    /\ UNCHANGED <<endpoints, mono, last_host_check, last_ep_check,
                   global_sem, host_sems, cache, last_result, req, marked,
                   issued, rs_call, rb_call, keywords_cfg>>

\* RateState.mark called on its own
RsMark(host, ep_key) ==
    /\ mark(host, ep_key)
    /\ UNCHANGED <<endpoints, mono, global_sem, host_sems, cache,
                   last_result, req, issued, rs_call, rb_call,
                   keywords_cfg, fn_call>>

\* the state after the module is loaded: the endpoint list is one of
\* lists, the clock shows one of clocks, the keyword file is one of cfgs
InitState(lists, clocks, cfgs) ==
    /\ endpoints \in lists
    /\ keywords_cfg \in cfgs
    /\ fn_call = NoFnCall
    /\ mono \in clocks
    /\ last_host_check = [h \in Hosts |-> 0]
    /\ last_ep_check = [u \in Urls |-> 0]
    /\ global_sem = GLOBAL_MAX_CONCURRENCY
    /\ host_sems = [h \in Hosts |-> NoSem]
    /\ cache = [h \in Hosts |-> NoCache]
    /\ last_result = [u \in Urls |-> NoRecord]
    /\ req = [r \in Requests |-> Idle]
    /\ marked = {}
    /\ issued = [k \in Urls \cup Hosts |-> None]
    /\ rs_call = NoCall
    /\ rb_call = NoRbCall

InitWith(lists, clocks) == InitState(lists, clocks, {keywords_json})

\* One api_status request at a time over two endpoints of one host; the
\* hosts answer from the full sets
HeadReplies ==
    ({200} \X Latencies) \cup {<<302, TTFB_SLA_S + 1>>}
        \cup ({404, 503} \X {TTFB_SLA_S}) \cup {<<None, 0>>}
GetReplies == {<<200, TTFB_SLA_S>>, <<503, TTFB_SLA_S>>, <<None, 0>>}

Init == InitWith({<<EpA, EpB>>}, 0..EP_MIN_INTERVAL_S)

Next ==
    \/ Call("r1")
    \/ \E reply \in RobotsReplies : RobotsReply("r1", reply)
    \/ SendHead("r1")
    \/ \E a \in HeadReplies : HeadReply("r1", a[1], a[2])
    \/ \E a \in GetReplies : GetReply("r1", a[1], a[2])
    \/ \E page \in Pages : ContentReply("r1", page)
    \/ Respond("r1")
    \/ Tick

Spec == Init /\ [][Next]_vars

\* The same with a clock that shows a time past both intervals at start
InitWarm == InitWith({<<EpA, EpB>>}, {EP_MIN_INTERVAL_S})

SpecWarm == InitWarm /\ [][Next]_vars

\* Overlapping api_status requests over two hosts, all within one tick of
\* the clock, which shows a time past both intervals; the hosts answer
\* from reduced sets
ConcRobotsReplies == {r \in RobotsReplies : r.status = 404}
ConcHeadReplies == {<<200, TTFB_SLA_S>>, <<None, 0>>}
ConcGetReplies == {<<None, 0>>}
ConcPages == {p \in Pages : p.status = 200 /\ p.title # <<>>}

InitConc == InitWith({<<EpA, EpC>>}, {EP_MIN_INTERVAL_S})

NextConc ==
    \/ \E r \in Requests : Call(r)
    \/ \E r \in Requests, reply \in ConcRobotsReplies : RobotsReply(r, reply)
    \/ \E r \in Requests : WakeGlobal(r)
    \/ \E r \in Requests : WakeHost(r)
    \/ \E r \in Requests : SendHead(r)
    \/ \E r \in Requests, a \in ConcHeadReplies : HeadReply(r, a[1], a[2])
    \/ \E r \in Requests, a \in ConcGetReplies : GetReply(r, a[1], a[2])
    \/ \E r \in Requests, page \in ConcPages : ContentReply(r, page)
    \/ \E r \in Requests : Respond(r)

SpecConc == InitConc /\ [][NextConc]_vars

\* The same under fair scheduling: a request started by api_status goes on
\* to its next endpoint, every network call and the pause end, and a check
\* that waits for a permit gets it when permits keep coming back
\* (asyncio.Semaphore wakes its waiters in the order they came)
LivePages == {p \in Pages : p.content = <<>>}

Proceed(r) ==
    \/ req[r].pc = "returned" /\ (Call(r) \/ Respond(r))
    \/ \E reply \in ConcRobotsReplies : RobotsReply(r, reply)
    \/ SendHead(r)
    \/ \E a \in ConcHeadReplies : HeadReply(r, a[1], a[2])
    \/ \E a \in ConcGetReplies : GetReply(r, a[1], a[2])
    \/ \E page \in LivePages : ContentReply(r, page)

Wake(r) == WakeGlobal(r) \/ WakeHost(r)

InitLive == InitWith({<<EpA>>}, {EP_MIN_INTERVAL_S})

NextLive ==
    \/ \E r \in Requests : req[r].pc = "idle" /\ Call(r)
    \/ \E r \in Requests : Proceed(r)
    \/ \E r \in Requests : Wake(r)

FairLive ==
    \A r \in Requests : WF_vars(Proceed(r)) /\ SF_vars(Wake(r))

SpecLive == InitLive /\ [][NextLive]_vars /\ FairLive

\* One api_status request over a single endpoint with a clock past both
\* intervals at start; the host answers the primary probe with statuses
\* on both sides of every boundary of the classification
Statuses == {101, 200, 204, 302, 399, 400, 499, 500, 503}
StatusRobotsReplies == {r \in RobotsReplies : r.status # 200}
StatusProbeReplies == (Statuses \X {TTFB_SLA_S}) \cup {<<None, 0>>}
StatusPages == {p \in Pages : p.title # <<>> \/ p.status = None}

InitStatus == InitWith({<<EpA>>}, {EP_MIN_INTERVAL_S})

NextStatus ==
    \/ Call("r1")
    \/ \E reply \in StatusRobotsReplies : RobotsReply("r1", reply)
    \/ SendHead("r1")
    \/ \E a \in StatusProbeReplies : HeadReply("r1", a[1], a[2])
    \/ \E a \in StatusProbeReplies : GetReply("r1", a[1], a[2])
    \/ \E page \in StatusPages : ContentReply("r1", page)
    \/ Respond("r1")
    \/ Tick

SpecStatus == InitStatus /\ [][NextStatus]_vars

\* check_robots_allow alone, on any endpoint of a list over two hosts at
\* any time from the start of the clock; a host answers
\* with a robots.txt of one group for all agents holding at most one Allow
\* and one Disallow line, or with 404, another status, or not at all
RuleValues == {<<"/">>, <<"/", "p">>, <<"/", "*">>}

RuleLines(k) == {<<>>} \cup {<< <<k, ":", " ">> \o v >> : v \in RuleValues}

RobotsTexts ==
    {<< <<"User-agent", ":", " ", "*">> >> \o al \o dl :
        al \in RuleLines("Allow"), dl \in RuleLines("Disallow")}

RbReplies ==
    {[status |-> 200, text |-> t] : t \in RobotsTexts}
        \cup {[status |-> st, text |-> <<>>] : st \in {404, 500, None}}

InitRobots == InitWith({<<EpB, EpC>>}, {0})

NextRobots ==
    \/ \E i \in DOMAIN endpoints : RbCall(endpoints[i].url)
    \/ \E reply \in RbReplies : RbReply(reply)
    \/ Tick

SpecRobots == InitRobots /\ [][NextRobots]_vars

\* _normalize_text alone, under every setting of the two toggles, on
\* every text of at most MaxTextLen characters
Alphabet == {"H", "h", "U+0331", "U+00A0", " ", "\t"}

RECURSIVE TextsUpTo(_)
TextsUpTo(n) ==
    IF n = 0 THEN {<<>>}
    ELSE LET shorter == TextsUpTo(n - 1)
         IN  shorter \cup {Append(t, c) : t \in shorter, c \in Alphabet}

Toggles ==
    {[keywords_json EXCEPT !.settings = [case_insensitive |-> ci,
                                         normalize_whitespace |-> ws]] :
        ci \in BOOLEAN, ws \in BOOLEAN}

InitNormalize == InitState({<<EpA>>}, {0}, Toggles)

NextNormalize ==
    \/ \E text \in TextsUpTo(MaxTextLen) : Normalize(text)
    \/ NormalizeAgain

SpecNormalize == InitNormalize /\ [][NextNormalize]_vars

\* Keyword selection alone: the domains map holds up to MaxItems of
\* four items, in any order, each with a keyword of its own
go_kr == <<"g", "o", ".", "k", "r">>
www_data_go_kr == <<"w", "w", "w", ".", "d", "a", "t", "a", ".">> \o go_kr
go_kr_example_com ==
    go_kr \o <<".", "e", "x", "a", "m", "p", "l", "e", ".", "c", "o", "m">>

Domains == {www_data_go_kr, go_kr_example_com, go_kr, <<"x">> \o go_kr,
            <<"k", "r">>}

DomainItems ==
    {[pattern |-> www_data_go_kr, keywords |-> << <<"e">> >>],
     [pattern |-> go_kr, keywords |-> << <<"x">> >>],
     [pattern |-> <<"*", ".">> \o go_kr, keywords |-> << <<"g">> >>],
     [pattern |-> <<"*", ".", "k", "r">>, keywords |-> << <<"k">> >>]}

RECURSIVE DomainMapsUpTo(_)
DomainMapsUpTo(n) ==
    IF n = 0 THEN {<<>>}
    ELSE LET shorter == DomainMapsUpTo(n - 1)
             fresh(m) == {x \in DomainItems : \A i \in DOMAIN m : m[i] # x}
         IN  shorter \cup
                 UNION {{Append(m, it) : it \in fresh(m)} : m \in shorter}

DomainCfgs ==
    {[keywords_json EXCEPT !.domains = m] : m \in DomainMapsUpTo(MaxItems)}

\* a page that holds every keyword of the file
AllText == <<"d", " ", "n", " ", "e", " ", "x", " ", "g", " ", "k">>

InitDomains == InitState({<<EpA>>}, {0}, DomainCfgs)

NextDomains ==
    \/ \E domain \in Domains : GetDomainKeywords(domain)
    \/ \E domain \in Domains : CheckNegativeKeywords(AllText, <<>>, domain)

SpecDomains == InitDomains /\ [][NextDomains]_vars

\* The keyword scan alone: up to MaxItems literal keywords and up to two
\* regex items under the four settings, on pages with and without a title.
\* "D N" against the keyword "d n" is a text that differs from the keyword
\* only in letter case; "(" is a pattern that does not compile
ScanKeywords == {<<"d", " ", "n">>, <<"o", "k">>, <<"O", "K">>, <<>>}

ScanRegexes ==
    { [pattern |-> <<"o", "k">>, flags |-> <<>>],
      [pattern |-> <<"D">>, flags |-> <<"i">>],
      [pattern |-> <<"(">>, flags |-> <<>>] }

RECURSIVE ListsUpTo(_, _)
ListsUpTo(S, n) ==
    IF n = 0 THEN {<<>>}
    ELSE LET shorter == ListsUpTo(S, n - 1)
         IN  shorter \cup {Append(l, x) : l \in shorter, x \in S}

ScanCfgs ==
    {[global_keywords |-> kws, domains |-> <<>>, regex_keywords |-> rs,
      settings |-> t.settings] :
        kws \in ListsUpTo(ScanKeywords, MaxItems),
        rs \in ListsUpTo(ScanRegexes, 2), t \in Toggles}

ScanContents ==
    {<<"D", " ", "N">>, <<"o", "k">>, <<"D", " ", "N", " ", "o", "k">>,
     <<"D", " ", "\t", "N">>, <<>>}

ScanTitles == {<<>>, <<"O", "K">>, <<"d", " ", "n">>}

InitScan == InitState({<<EpA>>}, {0}, ScanCfgs)

NextScan ==
    \E content \in ScanContents, title \in ScanTitles :
        CheckNegativeKeywords(content, title, _extract_domain(EpA.url))

SpecScan == InitScan /\ [][NextScan]_vars

\* The robots.txt parser alone, called once on a file of up to MaxLines of
\* these lines: groups for all agents and for one agent, field names in other
\* letter case, rules with and without a value, blanks around the pieces,
\* comments, a line without a colon, an empty line and another field
RawLines ==
    { <<"User-agent", ":", " ", "*">>,
      <<"USER-AGENT", ":", "*">>,
      <<"User-agent", ":", " ", "*", " ", "#", " ", "bot">>,
      <<"User-agent", ":", " ", "bot">>,
      <<"Disallow", ":", " ", "/", "p">>,
      <<"disallow", ":", "/">>,
      <<"Disallow", ":">>,
      <<"Disallow", ":", " ", "#", "/">>,
      <<"Allow", ":", " ", "/", "p">>,
      <<" ", "Allow", " ", ":", " ", "/", " ">>,
      <<"#", "Disallow", ":", " ", "/">>,
      <<"Disallow", " ", "/">>,
      <<>>,
      <<"Sitemap", ":", " ", "/", "p">> }

InitParse == InitWith({<<EpA>>}, {0})

NextParse ==
    \E txt \in ListsUpTo(RawLines, MaxLines) :
        fn_call = NoFnCall /\ Parse(txt)

SpecParse == InitParse /\ [][NextParse]_vars

\* Snapshot cycles without end, one api_status request at a time over two
\* endpoints of one host in either order, while the clock advances; no
\* robots.txt disallows anything and the hosts answer from reduced sets.
\* A started request goes on to its end, new requests keep coming and
\* the clock keeps advancing.
StarveRobotsReplies == {r \in RobotsReplies : r.status = 404}
StarveHeadReplies == {<<200, TTFB_SLA_S>>, <<None, 0>>}
StarveGetReplies == {<<None, 0>>}

InitStarve == InitWith({<<EpA, EpB>>, <<EpB, EpA>>}, {MaxTime})

Cycle(r) ==
    \/ Call(r)
    \/ \E reply \in StarveRobotsReplies : RobotsReply(r, reply)
    \/ SendHead(r)
    \/ \E a \in StarveHeadReplies : HeadReply(r, a[1], a[2])
    \/ \E a \in StarveGetReplies : GetReply(r, a[1], a[2])
    \/ \E page \in LivePages : ContentReply(r, page)
    \/ Respond(r)

NextStarve == Cycle("r1") \/ Advance

SpecStarve ==
    InitStarve /\ [][NextStarve]_vars
        /\ WF_vars(Cycle("r1")) /\ WF_vars(Advance)

\* RateState alone: allowed_now and mark on any key at any time
Intervals == 1..MaxInterval

NextRate ==
    \/ \E u \in Urls, hi \in Intervals, ei \in Intervals :
          RsAllowedNow(host_of(u), u, hi, ei)
    \/ \E u \in Urls : RsMark(host_of(u), u)
    \/ Tick

SpecRate == Init /\ [][NextRate]_vars

----------------------------------------------------------------------------
(* Properties *)

InSection(r) == req[r].pc \in {"sleep", "head", "get"}
HoldsGlobal(r) == req[r].pc \in {"wait_host", "sleep", "head", "get"}
HostOfCall(r) == host_of(endpoints[req[r].idx].url)
Returned(r) == req[r].pc = "returned"
Probed(rec) == rec.outcome \in {"OK", "UNSTABLE", "UNHEALTHY", "HTTP4xx",
                                "HTTP5xx", "ERROR"}

\* the records api_status has got from check_one in its cycle so far
Collected(r) ==
    IF Returned(r)
    THEN Append(req[r].results, [url |-> req[r].ret.url,
                                 outcome |-> req[r].ret.outcome])
    ELSE req[r].results

Outcomes == {"DISALLOWED", "SKIPPED", "OK", "UNSTABLE", "UNHEALTHY",
             "HTTP4xx", "HTTP5xx", "ERROR"}

\* the answers the call has received to its requests of the given kinds
Answers(r, kinds) == SelectSeq(req[r].recv, LAMBDA e : e.kind \in kinds)

\* the answer that ended the primary probe of a call that has returned a
\* probed record: the answer to the GET fallback when one was sent, else
\* the answer to HEAD
Primary(r) ==
    LET s == Answers(r, {"head", "get"})
    IN  s[Len(s)]

\* C1: at every moment the number of check_one calls inside the permit
\* section is at most the global capacity and, for each host, the number
\* of such calls for that host is at most the per-host capacity; the pool
\* of a host is created once with the configured capacity and reused, so
\* its free permits plus the calls of that host in the section always add
\* up to that capacity.
C1_ConcurrencyBounds ==
    /\ Cardinality({r \in Requests : InSection(r)}) <= GLOBAL_MAX_CONCURRENCY
    /\ \A h \in Hosts :
         LET inside == {r \in Requests : InSection(r) /\ HostOfCall(r) = h}
         IN  /\ Cardinality(inside) <= PER_HOST_CONCURRENCY
             /\ host_sems[h] # NoSem =>
                    host_sems[h] + Cardinality(inside) = PER_HOST_CONCURRENCY

\* both capacities are exhausted: two calls in the section on two hosts
\* and a third call waiting for the global permit
C1_Witness ==
    /\ Cardinality({r \in Requests : InSection(r)}) = GLOBAL_MAX_CONCURRENCY
    /\ \E r \in Requests : req[r].pc = "wait_global"
    /\ \A h \in Hosts : host_sems[h] = 0

\* C2: every request check_one sends to the endpoint's URL (HEAD, GET
\* fallback, content GET) is in flight only while the check holds the
\* global permit and the permit of the host.
C2_RequestsUnderPermits ==
    \A r \in Requests :
        req[r].pc \in {"head", "get", "content"} =>
            req[r].hasG /\ req[r].hasH

\* C3: a primary probe of an endpoint is never issued less than the
\* endpoint interval after the previous primary probe of that endpoint,
\* nor less than the host interval after the previous one of its host.
C3_ProbeSpacing ==
    [][\A r \in Requests :
          (req[r].pc = "sleep" /\ req'[r].pc = "head") =>
              LET u == endpoints[req[r].idx].url
                  h == host_of(u)
              IN  /\ issued[u] # None =>
                         mono - issued[u] >= EP_MIN_INTERVAL_S
                  /\ issued[h] # None =>
                         mono - issued[h] >= HOST_MIN_INTERVAL_S]_vars

\* C4: whenever no check is between taking its first permit and the end
\* of its primary probe, every permit pool is at its full capacity.
C4_PermitsReleased ==
    (\A r \in Requests : ~HoldsGlobal(r)) =>
        /\ global_sem = GLOBAL_MAX_CONCURRENCY
        /\ \A h \in Hosts : host_sem(host_sems[h]) = PER_HOST_CONCURRENCY

\* a check has ended ERROR after a failed HEAD and a failed GET fallback,
\* and the pools that were used are full again
C4_Witness ==
    /\ \A r \in Requests : ~HoldsGlobal(r) /\ req[r].pc # "wait_global"
    /\ \E r \in Requests :
          /\ Returned(r)
          /\ req[r].ret.outcome = "ERROR"
          /\ req[r].n.get = 1
          /\ host_sems[HostOfCall(r)] = PER_HOST_CONCURRENCY
    /\ global_sem = GLOBAL_MAX_CONCURRENCY

\* C5: for keys that were marked, allowed_now is true exactly when the
\* time since the last mark of the host is at least host_interval and the
\* time since the last mark of the endpoint is at least ep_interval.
C5_AllowedNowBoundary ==
    (rs_call # NoCall /\ rs_call.was_marked) =>
        LET host_elapsed == rs_call.now - rs_call.last_host
            ep_elapsed == rs_call.now - rs_call.last_ep
        IN  /\ (host_elapsed < rs_call.host_interval
                   \/ ep_elapsed < rs_call.ep_interval)
                  => rs_call.result = FALSE
            /\ (host_elapsed >= rs_call.host_interval
                   /\ ep_elapsed >= rs_call.ep_interval)
                  => rs_call.result = TRUE

\* a call exactly at the boundary of both intervals is allowed
C5_Witness ==
    /\ rs_call # NoCall
    /\ rs_call.was_marked
    /\ rs_call.now - rs_call.last_host = rs_call.host_interval
    /\ rs_call.now - rs_call.last_ep = rs_call.ep_interval
    /\ rs_call.result = TRUE

\* a call one tick under the boundary is denied
C5_WitnessUnder ==
    /\ rs_call # NoCall
    /\ rs_call.was_marked
    /\ rs_call.now - rs_call.last_host = rs_call.host_interval - 1
    /\ rs_call.result = FALSE

\* C6: the first check of an endpoint is never denied by the rate
\* limiter: a check that ends SKIPPED is a check of an endpoint that was
\* marked before.
C6_FirstCheckAllowed ==
    \A r \in Requests :
        (Returned(r) /\ req[r].ret.outcome = "SKIPPED") =>
            req[r].ret.url \in marked

\* C7: a check that ends DISALLOWED or SKIPPED issued no probe, called
\* mark never and leaves both timestamp maps as they were; a check that
\* issued a probe has called mark exactly once when it ends; a call of
\* mark comes after the probe was issued and writes the current time for
\* the host and for the endpoint; nothing else changes the maps.
C7_MarkOnlyAfterProbe ==
    [][/\ \A r \in Requests :
            LET q == req[r]
                q2 == req'[r]
            IN  /\ (q2 # q /\ q2.pc = "returned") =>
                      IF q2.ret.outcome \in {"DISALLOWED", "SKIPPED"}
                      THEN /\ q2.n.head = 0 /\ q2.n.mark = 0
                           /\ last_host_check' = last_host_check
                           /\ last_ep_check' = last_ep_check
                      ELSE q2.n.head = 1 /\ q2.n.mark = 1
                /\ (q2.idx = q.idx /\ q2.n.mark > q.n.mark) =>
                      /\ q.n.head = 1 /\ q.n.mark = 0
                      /\ last_host_check'[HostOfCall(r)] = mono
                      /\ last_ep_check'[endpoints[q.idx].url] = mono
       /\ (last_host_check' # last_host_check
              \/ last_ep_check' # last_ep_check) =>
             \E r \in Requests : req'[r].n.mark = req[r].n.mark + 1]_vars

\* a check of an endpoint probed before has ended SKIPPED
C7_Witness ==
    \E r \in Requests :
        /\ Returned(r)
        /\ req[r].ret.outcome = "SKIPPED"
        /\ req[r].ret.url \in marked
        /\ last_ep_check[req[r].ret.url] > 0

\* C8: a check whose robots decision is DISALLOW has returned DISALLOWED
\* without consulting the rate limiter, without acquiring a permit and
\* without sending a request to the endpoint's URL.
C8_RobotsFirst ==
    \A r \in Requests :
        /\ req[r].decision = "DISALLOW" =>
              Returned(r) /\ req[r].ret.outcome = "DISALLOWED"
        /\ (Returned(r) /\ req[r].ret.outcome = "DISALLOWED") =>
              /\ req[r].decision = "DISALLOW"
              /\ req[r].n.gate = 0 /\ req[r].n.acq = 0
              /\ req[r].n.head = 0 /\ req[r].n.get = 0
              /\ req[r].n.content = 0
              /\ ~req[r].hasG /\ ~req[r].hasH

\* a check has ended DISALLOWED at a moment where the rate limiter would
\* have denied it because its host was just marked
C8_Witness ==
    \E r \in Requests :
        /\ Returned(r)
        /\ req[r].ret.outcome = "DISALLOWED"
        /\ HostOfCall(r) \in marked
        /\ ~allowed_now(HostOfCall(r), req[r].ret.url,
                        HOST_MIN_INTERVAL_S, EP_MIN_INTERVAL_S)

C10_Classification2xx3xx ==
    \A r \in Requests :
        LET rec == req[r].ret
        IN  (Returned(r) /\ Probed(rec) /\ rec.http # None
                /\ 200 <= rec.http /\ rec.http < 400) =>
               rec.outcome =
                   IF rec.matched_keywords # <<>> THEN "UNHEALTHY"
                   ELSE IF rec.ttfb_ms <= TTFB_SLA_S * 1000 THEN "OK"
                   ELSE "UNSTABLE"

\* a check with a latency equal to the SLA is OK
C10_Witness ==
    \E r \in Requests :
        /\ Returned(r)
        /\ req[r].ret.outcome = "OK"
        /\ req[r].ret.ttfb_ms = TTFB_SLA_S * 1000

\* a check over the SLA whose content matched is UNHEALTHY
C10_WitnessUnhealthy ==
    \E r \in Requests :
        /\ Returned(r)
        /\ req[r].ret.outcome = "UNHEALTHY"
        /\ req[r].ret.ttfb_ms > TTFB_SLA_S * 1000

\* C11: a probed check whose primary probe ended with a status in
\* [400,500) has outcome HTTP4xx, one whose primary probe ended with a
\* status of 500 or more has outcome HTTP5xx; in both cases the record
\* carries that status and the check has sent no content request.
C11_Classification4xx5xx ==
    \A r \in Requests :
        LET rec == req[r].ret
            st == Primary(r).status
        IN  (Returned(r) /\ Probed(rec) /\ st # None /\ st >= 400) =>
               /\ rec.outcome = IF st >= 500 THEN "HTTP5xx" ELSE "HTTP4xx"
               /\ rec.http = st
               /\ req[r].n.content = 0
               /\ Answers(r, {"content"}) = <<>>

\* a check whose GET fallback was answered 500 has ended HTTP5xx
C11_Witness ==
    \E r \in Requests :
        /\ Returned(r)
        /\ req[r].ret.outcome = "HTTP5xx"
        /\ req[r].ret.http = 500
        /\ req[r].n.get = 1

\* a check whose HEAD was answered 499 has ended HTTP4xx
C11_Witness4xx ==
    \E r \in Requests :
        /\ Returned(r)
        /\ req[r].ret.outcome = "HTTP4xx"
        /\ req[r].ret.http = 499
        /\ req[r].n.get = 0

\* C12: a probed check has outcome ERROR exactly when its primary probe
\* obtained no status, that is when HEAD failed and either no GET
\* fallback was sent, which happens only under an UNKNOWN robots decision,
\* or the GET fallback failed too; the ERROR record has http null, latency
\* 0 and the message of the last failure in error; a record with a status
\* has error null.
C12_ErrorOutcome ==
    \A r \in Requests :
        LET rec == req[r].ret
            heads == Answers(r, {"head"})
            gets == Answers(r, {"get"})
            no_status == /\ heads[1].status = None
                         /\ (gets = <<>> \/ gets[1].status = None)
        IN  (Returned(r) /\ Probed(rec)) =>
               /\ Len(heads) = 1
               /\ (rec.outcome = "ERROR") <=> no_status
               /\ no_status =>
                     /\ rec.http = None
                     /\ rec.ttfb_ms = 0
                     /\ rec.error = IF gets = <<>> THEN "head failed"
                                    ELSE "get failed"
                     /\ (gets = <<>>) <=> (req[r].decision = "UNKNOWN")
               /\ ~no_status =>
                     /\ rec.http # None
                     /\ rec.error = NoneStr

\* a check has ended ERROR after a failed HEAD and a failed GET fallback
C12_Witness ==
    \E r \in Requests :
        /\ Returned(r)
        /\ req[r].ret.outcome = "ERROR"
        /\ req[r].ret.error = "get failed"
        /\ Len(Answers(r, {"get"})) = 1

\* a check has ended ERROR after a failed HEAD without a fallback
C12_WitnessNoFallback ==
    \E r \in Requests :
        /\ Returned(r)
        /\ req[r].ret.outcome = "ERROR"
        /\ req[r].ret.error = "head failed"
        /\ req[r].decision = "UNKNOWN"

\* a check whose HEAD failed has a status from the GET fallback and no
\* error
C12_WitnessRecovered ==
    \E r \in Requests :
        /\ Returned(r)
        /\ Probed(req[r].ret)
        /\ Answers(r, {"head"})[1].status = None
        /\ req[r].ret.http = 200
        /\ req[r].ret.error = NoneStr

\* C13: a call of check_robots_allow uses the record it found in the
\* cache, and sends no request, only when that record is less than the
\* TTL old; when it found no record or one that is TTL old or older, it
\* fetches robots.txt and, before it computes the decision, replaces the
\* cache entry of the host by the new record stamped with the time of the
\* call; the decision is computed from the record so obtained.
C13_RobotsTtl ==
    LET h == host_of(rb_call.url)
        found == rb_call.found
        fresh == found # NoCache /\ rb_call.now - found.at < _TTL
    IN  /\ rb_call.pc = "fetch" => ~fresh /\ rb_call.fetched
        /\ rb_call.pc = "done" =>
              /\ IF fresh
                 THEN /\ ~rb_call.fetched
                      /\ rb_call.rb = found.rb
                      /\ cache[h] = found
                 ELSE /\ rb_call.fetched
                      /\ rb_call.rb = robots_record(rb_call.reply)
                      /\ cache[h] = [at |-> rb_call.now,
                                     rb |-> rb_call.rb]
              /\ rb_call.decision =
                     robots_decision(rb_call.rb, path_of(rb_call.url))

\* a call that found a record exactly TTL old has fetched a new one
C13_Witness ==
    /\ rb_call.pc = "done"
    /\ rb_call.fetched
    /\ rb_call.found # NoCache
    /\ rb_call.now - rb_call.found.at = _TTL
    /\ cache[host_of(rb_call.url)].at = rb_call.now

\* a call that found a record one tick under the TTL has used it
C13_WitnessReuse ==
    /\ rb_call.pc = "done"
    /\ ~rb_call.fetched
    /\ rb_call.now - rb_call.found.at = _TTL - 1

\* C14: when the robots.txt request of a call ends, the record is parsed
\* with the rules of the body for status 200, policy allow for status
\* 404 and policy unknown for any other status and for a failed request,
\* and in every one of these cases the cache entry of the host becomes
\* that record stamped with the time of the call; a call that starts
\* while the entry of its host is less than the TTL old sends no request
\* and uses the stored record.
C14_RobotsRecordCached ==
    [][/\ (rb_call.pc = "fetch" /\ rb_call'.pc = "done") =>
            LET reply == rb_call'.reply
                rules(k) ==
                    LET ls == SelectSeq(reply.text, LAMBDA l : Head(l) = k)
                    IN  [i \in 1..Len(ls) |-> SubSeq(ls[i], 4, Len(ls[i]))]
            IN  /\ rb_call'.rb =
                      IF reply.status = 200
                      THEN [policy |-> "parsed", allows |-> rules("Allow"),
                            disallows |-> rules("Disallow")]
                      ELSE [policy |-> IF reply.status = 404 THEN "allow"
                                       ELSE "unknown",
                            allows |-> <<>>, disallows |-> <<>>]
                /\ cache'[host_of(rb_call.url)] =
                      [at |-> rb_call.now, rb |-> rb_call'.rb]
       /\ (rb_call.pc # "fetch" /\ rb_call' # rb_call) =>
            LET entry == cache[host_of(rb_call'.url)]
            IN  (entry # NoCache /\ mono - entry.at < _TTL) =>
                   /\ rb_call'.pc = "done"
                   /\ ~rb_call'.fetched
                   /\ rb_call'.rb = entry.rb
                   /\ cache' = cache]_vars

\* a call has used the unknown record stored by an earlier call whose
\* request failed or was answered by another status
C14_Witness ==
    /\ rb_call.pc = "done"
    /\ ~rb_call.fetched
    /\ rb_call.rb.policy = "unknown"
    /\ rb_call.now > rb_call.found.at

\* a call whose request was answered 500 has stored an unknown record
C14_WitnessStatus ==
    /\ rb_call.pc = "done"
    /\ rb_call.fetched
    /\ rb_call.reply.status = 500
    /\ cache[host_of(rb_call.url)].rb.policy = "unknown"

\* C15: a check whose robots.txt request failed gets the decision
\* UNKNOWN, and a check under the decision UNKNOWN, whether from its own
\* request or from the cached record, never ends DISALLOWED: it consults
\* the rate limiter and, unless that denies it, takes the permits and
\* sends the HEAD request as under ALLOW.
C15_UnknownNeverBlocks ==
    \A r \in Requests :
        LET q == req[r]
            robots == Answers(r, {"robots"})
        IN  /\ (robots # <<>> /\ robots[1].status = None) =>
                  q.decision = "UNKNOWN"
            /\ q.decision = "UNKNOWN" =>
                  /\ q.n.gate = 1
                  /\ q.pc \in {"wait_global", "wait_host", "sleep", "head",
                               "get", "content", "returned"}
                  /\ Returned(r) =>
                        /\ q.ret.outcome # "DISALLOWED"
                        /\ q.ret.outcome = "SKIPPED" => q.n.head = 0
                        /\ Probed(q.ret) =>
                              /\ q.n.acq = 2
                              /\ q.n.head = 1
                              /\ q.ret.robots = "unknown"

\* a check of the path that the robots.txt of the host disallows, made
\* after a failed robots.txt request, has been probed and has ended OK
C15_Witness ==
    \E r \in Requests :
        /\ Returned(r)
        /\ req[r].ret.url = EpB.url
        /\ req[r].decision = "UNKNOWN"
        /\ Answers(r, {"robots"}) # <<>>
        /\ req[r].ret.outcome = "OK"

\* C16: for a parsed record the decision for a path is DISALLOW exactly
\* when a Disallow rule matches the path and the longest matching
\* Disallow rule is strictly longer than every matching Allow rule; when
\* the longest matching rules of both kinds are equally long, and when no
\* rule of either kind matches, the decision is ALLOW.
C16_LongestMatch ==
    (rb_call.pc = "done" /\ rb_call.rb.policy = "parsed") =>
        LET path == path_of(rb_call.url)
            lens(rules) == {Len(rules[i]) : i \in
                              {j \in DOMAIN rules :
                                  _rule_matches(rules[j], path)}}
            a == lens(rb_call.rb.allows)
            d == lens(rb_call.rb.disallows)
            longer == \E x \in d : \A y \in a : x > y
        IN  /\ rb_call.decision = IF longer THEN "DISALLOW" ELSE "ALLOW"
            /\ (a = {} /\ d = {}) => rb_call.decision = "ALLOW"
            /\ (\E x \in d : x \in a /\ \A y \in d : y <= x) =>
                  rb_call.decision = "ALLOW"

\* the path /p under "Allow: /p" and "Disallow: /*", two matching rules
\* of the same length, is allowed
C16_Witness ==
    /\ rb_call.pc = "done"
    /\ rb_call.url = EpB.url
    /\ rb_call.rb.policy = "parsed"
    /\ rb_call.rb.allows = << <<"/", "p">> >>
    /\ rb_call.rb.disallows = << <<"/", "*">> >>
    /\ rb_call.decision = "ALLOW"

\* the path /p under "Allow: /" and "Disallow: /p" is disallowed
C16_WitnessDisallow ==
    /\ rb_call.pc = "done"
    /\ rb_call.url = EpB.url
    /\ rb_call.rb.allows = << <<"/">> >>
    /\ rb_call.rb.disallows = << <<"/", "p">> >>
    /\ rb_call.decision = "DISALLOW"

\* the path / under rules that do not match it is allowed
C16_WitnessNoMatch ==
    /\ rb_call.pc = "done"
    /\ rb_call.url = EpC.url
    /\ rb_call.rb.allows = << <<"/", "p">> >>
    /\ rb_call.rb.disallows = << <<"/", "p">> >>
    /\ rb_call.decision = "ALLOW"

\* C17: when the HEAD request of a check fails under the decision
\* UNKNOWN, no GET fallback is sent and the probe ends with no status and
\* elapsed 0; when it fails under another decision, exactly one GET
\* fallback is sent and the probe ends with the status and the elapsed
\* time of its answer, or with no status and elapsed 0 when it fails
\* too; when HEAD is answered by any status, the probe ends with that
\* status and its elapsed time and no fallback is sent.
C17_HeadFallback ==
    \A r \in Requests :
        LET q == req[r]
            heads == Answers(r, {"head"})
            gets == Answers(r, {"get"})
            over == q.pc \in {"content", "returned"}
            result == IF q.pc = "content" THEN <<q.code, q.ttfb * 1000>>
                      ELSE <<q.ret.http, q.ret.ttfb_ms>>
            expected(a) == IF a.status = None THEN <<None, 0>>
                           ELSE <<a.status, a.elapsed * 1000>>
        IN  heads # <<>> =>
               IF heads[1].status # None
               THEN /\ q.n.get = 0 /\ gets = <<>>
                    /\ over /\ result = expected(heads[1])
               ELSE IF q.decision = "UNKNOWN"
               THEN /\ q.n.get = 0 /\ gets = <<>>
                    /\ over /\ result = <<None, 0>>
               ELSE /\ q.n.get = 1
                    /\ IF gets = <<>> THEN q.pc = "get"
                       ELSE /\ Len(gets) = 1
                            /\ over /\ result = expected(gets[1])

\* a check whose HEAD failed under ALLOW has the status of its GET
\* fallback
C17_Witness ==
    \E r \in Requests :
        /\ Returned(r)
        /\ req[r].decision = "ALLOW"
        /\ Answers(r, {"head"})[1].status = None
        /\ Len(Answers(r, {"get"})) = 1
        /\ req[r].ret.http = 503
        /\ req[r].ret.ttfb_ms = TTFB_SLA_S * 1000

\* a check whose HEAD failed under UNKNOWN has ended without a fallback
C17_WitnessUnknown ==
    \E r \in Requests :
        /\ Returned(r)
        /\ req[r].decision = "UNKNOWN"
        /\ Answers(r, {"head"})[1].status = None
        /\ req[r].n.get = 0
        /\ req[r].ret.http = None

\* C18: a check sends the content request, and scans what it brings
\* back, only after a primary probe that ended with the status 200; after
\* a primary probe that ended with no status or with any other status
\* the check sends no content request, and the title and the content
\* hash of its record are empty and no keyword is reported.
C18_ContentOnly200 ==
    \A r \in Requests :
        LET q == req[r]
            contents == Answers(r, {"content"})
        IN  /\ (q.pc = "content" \/ q.n.content > 0 \/ contents # <<>>) =>
                  Primary(r).status = 200
            /\ (Returned(r) /\ Probed(q.ret)) =>
                  IF Primary(r).status = 200
                  THEN q.n.content = 1 /\ Len(contents) = 1
                  ELSE /\ q.n.content = 0 /\ contents = <<>>
                       /\ q.ret.title = <<>>
                       /\ q.ret.content_sha256 = <<>>
                       /\ \A i \in DOMAIN q.ret.matched_keywords :
                             q.ret.matched_keywords[i] = ";" \/
                             q.ret.matched_keywords[i][1]
                                 \in {"HTTP", "CONNECTION_ERROR"}

\* a check whose primary probe ended with the status 204 is OK without
\* a content request
C18_Witness ==
    \E r \in Requests :
        /\ Returned(r)
        /\ req[r].ret.http = 204
        /\ req[r].ret.outcome = "OK"
        /\ req[r].n.content = 0
        /\ req[r].ret.content_sha256 = <<>>

\* a check whose primary probe ended with the status 200 has the title
\* and the hash of the page
C18_Witness200 ==
    \E r \in Requests :
        /\ Returned(r)
        /\ req[r].ret.http = 200
        /\ req[r].n.content = 1
        /\ req[r].ret.title # <<>>
        /\ req[r].ret.content_sha256 # <<>>

\* C19: from its call to its return a check sends at most one robots.txt
\* request, one HEAD request, one GET fallback and one content request,
\* and receives at most one answer to each, whatever requests fail; a
\* check whose last request has failed has returned a record.
C19_NoRetry ==
    \A r \in Requests :
        LET q == req[r]
        IN  /\ q.n.robots <= 1 /\ q.n.head <= 1
            /\ q.n.get <= 1 /\ q.n.content <= 1
            /\ Len(Answers(r, {"robots"})) <= q.n.robots
            /\ Len(Answers(r, {"head"})) <= q.n.head
            /\ Len(Answers(r, {"get"})) <= q.n.get
            /\ Len(Answers(r, {"content"})) <= q.n.content
            /\ (q.recv # <<>> /\ q.recv[Len(q.recv)].status = None
                   /\ q.recv[Len(q.recv)].kind \in {"get", "content"}) =>
                  Returned(r)

\* a check has sent all four requests, two of which have failed, and has
\* returned
C19_Witness ==
    \E r \in Requests :
        /\ Returned(r)
        /\ req[r].n.robots = 1 /\ req[r].n.head = 1
        /\ req[r].n.get = 1 /\ req[r].n.content = 1
        /\ Answers(r, {"head"})[1].status = None
        /\ Answers(r, {"content"})[1].status = None
        /\ Probed(req[r].ret)

\* a check whose robots.txt request and HEAD request have both failed
\* has ended ERROR
C19_WitnessAllFailed ==
    \E r \in Requests :
        /\ Returned(r)
        /\ Len(req[r].recv) = 2
        /\ \A i \in DOMAIN req[r].recv : req[r].recv[i].status = None
        /\ req[r].ret.outcome = "ERROR"

C21_RecordFields ==
    \A r \in Requests :
        Returned(r) =>
            {"name", "url", "http", "ttfb_ms", "outcome", "error",
             "matched_keywords", "title", "content_sha256", "ts",
             "robots"} \subseteq DOMAIN req[r].ret

\* C22: no two check_one calls for the same endpoint are at the same time
\* between the rate gate and the update of the rate timestamps and of the
\* last-result entry of that endpoint.
C22_OneCheckPerEndpoint ==
    \A r1, r2 \in Requests :
        (/\ r1 # r2
         /\ req[r1].pc \in {"wait_global", "wait_host", "sleep", "head",
                            "get", "content"}
         /\ req[r2].pc \in {"wait_global", "wait_host", "sleep", "head",
                            "get", "content"}) =>
            endpoints[req[r1].idx].url # endpoints[req[r2].idx].url

\* C23: under every setting of the two toggles, _normalize_text applied to
\* a text it has returned gives that text back.
C23_NormalizeIdempotent ==
    (fn_call.fn = "_normalize_text" /\ fn_call.again) =>
        fn_call.result = fn_call.arg

\* C24: the list of a wildcard pattern "*." suffix of the domains map is
\* among the keywords selected for a domain exactly when the domain ends
\* with "." suffix.
C24_WildcardSuffix ==
    fn_call.fn = "_get_domain_keywords" =>
        LET domain == fn_call.arg
            items == keywords_cfg.domains
            selected == {fn_call.result[i] : i \in DOMAIN fn_call.result}
        IN  \A i \in DOMAIN items :
                (items[i].pattern[1] = "*" /\ items[i].pattern[2] = ".") =>
                    ((\A j \in DOMAIN items[i].keywords :
                          items[i].keywords[j] \in selected)
                     <=> \E k \in 1..Len(domain) :
                             SubSeq(domain, k, Len(domain)) =
                                 Tail(items[i].pattern))

\* "*.go.kr" has selected www.data.go.kr
C24_Witness ==
    /\ fn_call.fn = "_get_domain_keywords"
    /\ fn_call.arg = www_data_go_kr
    /\ \E i \in DOMAIN keywords_cfg.domains :
          keywords_cfg.domains[i].pattern = <<"*", ".">> \o go_kr
    /\ \E i \in DOMAIN fn_call.result : fn_call.result[i] = <<"g">>

\* "*.go.kr" has not selected go.kr.example.com
C24_WitnessNot ==
    /\ fn_call.fn = "_get_domain_keywords"
    /\ fn_call.arg = go_kr_example_com
    /\ \E i \in DOMAIN keywords_cfg.domains :
          keywords_cfg.domains[i].pattern = <<"*", ".">> \o go_kr
    /\ fn_call.result = <<>>

\* C25: the keywords scanned for a domain are the global keywords, the
\* list of the item whose pattern is the domain itself, when there is
\* one, and the list of every wildcard item that selects the domain, all
\* of them together: on a page that holds every keyword of the file, each
\* of these keywords is reported once and no other keyword is.
C25_KeywordsAccumulate ==
    fn_call.fn = "_check_negative_keywords" =>
        LET domain == fn_call.arg[3]
            items == keywords_cfg.domains
            tags == fn_call.result
            selects(it) ==
                \/ it.pattern = domain
                \/ /\ it.pattern[1] = "*" /\ it.pattern[2] = "."
                   /\ \E k \in 1..Len(domain) :
                         SubSeq(domain, k, Len(domain)) = Tail(it.pattern)
            expected ==
                {keywords_cfg.global_keywords[i] :
                    i \in DOMAIN keywords_cfg.global_keywords}
                \cup UNION {{items[i].keywords[j] :
                                j \in DOMAIN items[i].keywords} :
                            i \in {x \in DOMAIN items : selects(items[x])}}
        IN  /\ {tags[i] : i \in DOMAIN tags} =
                  {<<"CONTENT", kw>> : kw \in expected}
            /\ Len(tags) = Cardinality(expected)

\* www.data.go.kr under a map with its own item and the items of "*.kr"
\* and "*.go.kr": the global keyword and the keywords of the three items
\* are all reported
C25_Witness ==
    /\ fn_call.fn = "_check_negative_keywords"
    /\ fn_call.arg[3] = www_data_go_kr
    /\ Len(keywords_cfg.domains) = 3
    /\ keywords_cfg.domains[1].pattern = <<"*", ".", "k", "r">>
    /\ keywords_cfg.domains[2].pattern = www_data_go_kr
    /\ fn_call.result = << <<"CONTENT", <<"d", " ", "n">> >>,
                           <<"CONTENT", <<"e">> >>,
                           <<"CONTENT", <<"k">> >>,
                           <<"CONTENT", <<"g">> >> >>

\* C26: every literal keyword and every regex is evaluated on its own: a
\* non-empty keyword of the list has a tag exactly when it occurs in the
\* normalized body or title (CONTENT when the body holds it, TITLE when
\* only the title does), a compiled regex likewise, whatever the items
\* before it found, and one tag per such item is reported; with
\* case-insensitive matching on, a keyword occurs wherever the normalized
\* text holds it up to letter case.
C26_IndependentMatching ==
    fn_call.fn = "_check_negative_keywords" =>
        LET content_norm == _normalize_text(fn_call.arg[1])
            title_norm == _normalize_text(fn_call.arg[2])
            ci == keywords_cfg.settings.case_insensitive
            kws == keywords_cfg.global_keywords
            rxs == keywords_cfg.regex_keywords
            tags == {fn_call.result[i] : i \in DOMAIN fn_call.result}
            pieces(text) ==
                {SubSeq(text, i, j) : i \in 1..(Len(text) + 1),
                                      j \in 0..Len(text)}
            occurs(kw, text) ==
                IF ci THEN \E s \in pieces(text) :
                               lower_text(s) = lower_text(kw)
                ELSE kw \in pieces(text)
            found(rx, text) ==
                IF ci \/ \E i \in DOMAIN rx.flags : rx.flags[i] = "i"
                THEN \E s \in pieces(text) :
                         lower_text(s) = lower_text(rx.pattern)
                ELSE rx.pattern \in pieces(text)
            hitK == {i \in DOMAIN kws :
                        /\ kws[i] # <<>>
                        /\ \/ occurs(kws[i], content_norm)
                           \/ occurs(kws[i], title_norm)}
            hitR == {i \in DOMAIN rxs :
                        /\ ~re_error(rxs[i].pattern)
                        /\ \/ found(rxs[i], content_norm)
                           \/ found(rxs[i], title_norm)}
        IN  /\ \A i \in DOMAIN kws : kws[i] # <<>> =>
                  /\ <<"CONTENT", kws[i]>> \in tags
                        <=> occurs(kws[i], content_norm)
                  /\ <<"TITLE", kws[i]>> \in tags
                        <=> /\ ~occurs(kws[i], content_norm)
                            /\ occurs(kws[i], title_norm)
            /\ \A i \in DOMAIN rxs : ~re_error(rxs[i].pattern) =>
                  /\ <<"REGEX_CONTENT", rxs[i].pattern>> \in tags
                        <=> found(rxs[i], content_norm)
                  /\ <<"REGEX_TITLE", rxs[i].pattern>> \in tags
                        <=> /\ ~found(rxs[i], content_norm)
                            /\ found(rxs[i], title_norm)
            /\ Len(fn_call.result) = Cardinality(hitK) + Cardinality(hitR)

\* the body "D N ok" under case-insensitive matching with the keywords
\* "d n" and "ok" and the regex "ok": the first keyword matches the text
\* that differs from it in letter case, and the items after it are
\* reported as well
C26_Witness ==
    /\ fn_call.fn = "_check_negative_keywords"
    /\ keywords_cfg.settings.case_insensitive
    /\ fn_call.arg[1] = <<"D", " ", "N", " ", "o", "k">>
    /\ fn_call.result = << <<"CONTENT", <<"d", " ", "n">> >>,
                           <<"CONTENT", <<"o", "k">> >>,
                           <<"REGEX_CONTENT", <<"o", "k">> >> >>

\* the body "D N" alone with the keyword "d n": a tag with
\* case-insensitive matching
C26_WitnessCase ==
    /\ fn_call.fn = "_check_negative_keywords"
    /\ keywords_cfg.settings.case_insensitive
    /\ keywords_cfg.global_keywords = << <<"d", " ", "n">> >>
    /\ fn_call.arg[1] = <<"D", " ", "N">>
    /\ fn_call.arg[2] = <<>>
    /\ fn_call.result = << <<"CONTENT", <<"d", " ", "n">> >> >>

\* a keyword found only in the title after a keyword found in the body
C26_WitnessTitle ==
    /\ fn_call.fn = "_check_negative_keywords"
    /\ fn_call.arg[1] = <<"D", " ", "N">>
    /\ fn_call.arg[2] = <<"O", "K">>
    /\ fn_call.result = << <<"CONTENT", <<"d", " ", "n">> >>,
                           <<"TITLE", <<"O", "K">> >> >>

\* C27: the steps of a probed check come in this order: the robots
\* decision is known when the rate gate is consulted; the global permit is
\* taken after the gate and the host permit after the global one; when
\* both are held the check pauses, and the primary request is sent in a
\* later step, by a check that pauses with both permits; the timestamps
\* are marked once the probe is over by a check that still holds its
\* permits, which it then releases; the content request is sent after
\* that, only on status 200; the last-result entry is written when the
\* check returns, after the content request when there was one.
C27_StepOrder ==
    [][/\ \A r \in Requests :
            LET q == req[r]
                q2 == req'[r]
                starts == q.pc \in {"idle", "returned"} /\ q2 # q
                n == IF starts THEN NoCounts ELSE q.n
            IN  /\ q2.n.gate > n.gate =>
                      /\ q2.decision \in {"ALLOW", "UNKNOWN"}
                      /\ n.acq = 0 /\ n.head = 0
                /\ q2.n.acq > n.acq =>
                      /\ q2.n.gate = 1
                      /\ q2.hasG
                      /\ q2.hasH => q2.n.acq = 2
                      /\ n.head = 0
                /\ q2.hasH => q2.hasG
                /\ q2.n.head > n.head =>
                      /\ ~starts
                      /\ q.pc = "sleep" /\ q.hasG /\ q.hasH
                      /\ q.n.gate = 1 /\ q.n.acq = 2 /\ q.n.mark = 0
                /\ (~starts /\ q2.pc = "sleep" /\ q.pc # "sleep") =>
                      /\ q2.hasG /\ q2.hasH /\ q2.n.head = 0
                /\ q2.n.mark > n.mark =>
                      /\ ~starts
                      /\ q.pc \in {"head", "get"} /\ q.hasG /\ q.hasH
                      /\ q.n.head = 1 /\ q.n.content = 0
                      /\ ~q2.hasG /\ ~q2.hasH
                      /\ last_ep_check'[endpoints[q.idx].url] = mono
                /\ q2.n.content > n.content =>
                      /\ q2.n.mark = 1 /\ ~q2.hasG /\ ~q2.hasH
                      /\ q2.code = 200
       /\ \A u \in Urls : last_result'[u] # last_result[u] =>
             \E r \in Requests :
                 LET q == req[r]
                     q2 == req'[r]
                 IN  /\ q2 # q /\ q2.pc = "returned"
                     /\ q.pc \in {"head", "get", "content"}
                     /\ endpoints[q.idx].url = u
                     /\ q2.ret = last_result'[u]
                     /\ q2.n.mark = 1 /\ ~q2.hasG /\ ~q2.hasH
                     /\ q2.n.content = 1 => q.pc = "content"]_vars

\* a check has gone through every step and has returned after its content
\* request
C27_Witness ==
    \E r \in Requests :
        /\ Returned(r)
        /\ req[r].n = [robots |-> 1, gate |-> 1, acq |-> 2, head |-> 1,
                       get |-> 0, content |-> 1, mark |-> 1]
        /\ last_result[req[r].ret.url] = req[r].ret

\* a check pauses with both permits and has sent nothing to its endpoint
C27_WitnessPause ==
    \E r \in Requests :
        /\ req[r].pc = "sleep"
        /\ req[r].hasG /\ req[r].hasH
        /\ req[r].n.head = 0

\* C28: a check that returns a probed record has made that record the
\* last-result entry of its endpoint; a check that returns DISALLOWED or
\* SKIPPED leaves every entry as it was; no step changes the entry of an
\* endpoint other than the one whose check returns in it; an entry is
\* always a probed record, and a SKIPPED record is decorated from the
\* entry of its endpoint.
C28_LastResultFrame ==
    [][/\ \A r \in Requests :
            LET q == req[r]
                q2 == req'[r]
                u == q2.ret.url
            IN  (q2 # q /\ q2.pc = "returned") =>
                    /\ \A v \in Urls \ {u} : last_result'[v] = last_result[v]
                    /\ IF Probed(q2.ret)
                       THEN last_result'[u] = q2.ret
                       ELSE /\ q2.ret.outcome \in {"DISALLOWED", "SKIPPED"}
                            /\ last_result'[u] = last_result[u]
                    /\ (q2.ret.outcome = "SKIPPED"
                            /\ last_result[u] # NoRecord) =>
                          /\ q2.ret.last_outcome = last_result[u].outcome
                          /\ q2.ret.last_ts = last_result[u].ts
                          /\ q2.ret.http = last_result[u].http
       /\ (last_result' # last_result) =>
             \E r \in Requests :
                 /\ req'[r] # req[r] /\ req'[r].pc = "returned"
                 /\ Probed(req'[r].ret)
       /\ \A u \in Urls :
             last_result'[u] = NoRecord \/ Probed(last_result'[u])]_vars

\* a check has ended SKIPPED with the decoration of a failed probe of its
\* endpoint
C28_Witness ==
    \E r \in Requests :
        /\ Returned(r)
        /\ req[r].ret.outcome = "SKIPPED"
        /\ req[r].ret.last_outcome = "ERROR"
        /\ last_result[req[r].ret.url].outcome = "ERROR"

\* a check has ended DISALLOWED after the other endpoint was probed: its
\* own entry is still empty and the other entry is in place
C28_WitnessDisallowed ==
    \E r \in Requests :
        /\ Returned(r)
        /\ req[r].ret.outcome = "DISALLOWED"
        /\ last_result[req[r].ret.url] = NoRecord
        /\ \E v \in Urls : Probed(last_result[v])

\* C29: under fair scheduling, with every network call ending, a check
\* that has started returns a record and holds no permit then, whatever
\* the other requests do; no check waits for a permit forever.
C29_ChecksReturn ==
    \A r \in Requests :
        (req[r].pc \notin {"idle", "returned"})
            ~> (req[r].pc = "returned" /\ ~req[r].hasG /\ ~req[r].hasH)

\* three checks at once: one probes its host with both permits, one holds
\* a global permit and waits for the permit of that host, one waits for a
\* global permit
C29_Witness ==
    \E r, s, t \in Requests :
        /\ req[r].pc = "wait_global"
        /\ req[s].pc = "wait_host" /\ req[s].hasG
        /\ InSection(t) /\ HostOfCall(t) = HostOfCall(s)

\* C29, over two hosts: a check that waits for the permit of its host
\* finds the permit free or held by a check that is probing, and a check
\* that waits for a global permit finds one free or held by a check that
\* is probing or waits for its host: no check waits for a check that
\* waits for it.
C29_NoCircularWait ==
    \A r \in Requests :
        /\ req[r].pc = "wait_host" =>
              \/ host_sem(host_sems[HostOfCall(r)]) > 0
              \/ \E s \in Requests \ {r} :
                     InSection(s) /\ HostOfCall(s) = HostOfCall(r)
        /\ req[r].pc = "wait_global" =>
              \/ global_sem > 0
              \/ \E s \in Requests \ {r} : HoldsGlobal(s)

\* C30: what each line of a robots.txt means: a User-agent line with its
\* agent, an Allow or a Disallow line with its value, whatever the letter
\* case of the field name and the blanks around the pieces, the value
\* ending where a comment starts; a comment line, a line without a colon,
\* an empty line and a line of another field mean nothing. The parser
\* returns, in the order of the file, the non-empty values of the Allow
\* lines and of the Disallow lines whose last User-agent line before them
\* names "*"; when every such Disallow line is empty the record allows
\* every path.
C30_StarBlockOnly ==
    fn_call.fn = "_parse" =>
        LET txt == fn_call.arg
            rb == fn_call.result
            field(l) ==
                CASE l \in {<<"User-agent", ":", " ", "*">>,
                            <<"USER-AGENT", ":", "*">>,
                            <<"User-agent", ":", " ", "*", " ", "#", " ",
                              "bot">>}
                        -> [k |-> "user-agent", v |-> <<"*">>]
                  [] l = <<"User-agent", ":", " ", "bot">>
                        -> [k |-> "user-agent", v |-> <<"bot">>]
                  [] l = <<"Disallow", ":", " ", "/", "p">>
                        -> [k |-> "disallow", v |-> <<"/", "p">>]
                  [] l = <<"disallow", ":", "/">>
                        -> [k |-> "disallow", v |-> <<"/">>]
                  [] l \in {<<"Disallow", ":">>,
                            <<"Disallow", ":", " ", "#", "/">>}
                        -> [k |-> "disallow", v |-> <<>>]
                  [] l = <<"Allow", ":", " ", "/", "p">>
                        -> [k |-> "allow", v |-> <<"/", "p">>]
                  [] l = <<" ", "Allow", " ", ":", " ", "/", " ">>
                        -> [k |-> "allow", v |-> <<"/">>]
                  [] OTHER -> [k |-> "none", v |-> <<>>]
            in_star(i) ==
                \E j \in 1..(i - 1) :
                    /\ field(txt[j]) = [k |-> "user-agent", v |-> <<"*">>]
                    /\ \A m \in (j + 1)..(i - 1) :
                           field(txt[m]).k = "user-agent" =>
                               field(txt[m]).v = <<"*">>
            rules(k) ==
                {i \in DOMAIN txt : /\ field(txt[i]).k = k
                                    /\ field(txt[i]).v # <<>>
                                    /\ in_star(i)}
            listed(k, got) ==
                /\ Len(got) = Cardinality(rules(k))
                /\ \E f \in [DOMAIN got -> rules(k)] :
                       /\ \A a, b \in DOMAIN got : a < b => f[a] < f[b]
                       /\ \A a \in DOMAIN got : got[a] = field(txt[f[a]]).v
        IN  /\ rb.policy = "parsed"
            /\ listed("allow", rb.allows)
            /\ listed("disallow", rb.disallows)
            /\ rules("disallow") = {} =>
                  \A u \in Urls : _allowed(path_of(u), rb.allows,
                                           rb.disallows)

\* a file whose group for all agents holds two Disallow lines without a
\* value, one of them with a comment: no rule, every path allowed
C30_Witness ==
    /\ fn_call.fn = "_parse"
    /\ fn_call.arg = << <<"USER-AGENT", ":", "*">>, <<"Disallow", ":">>,
                        <<"Disallow", ":", " ", "#", "/">> >>
    /\ fn_call.result = [policy |-> "parsed", allows |-> <<>>,
                         disallows |-> <<>>]

\* a rule after the User-agent line of another agent is left out, a rule
\* of the group for all agents before it is kept
C30_WitnessOtherAgent ==
    /\ fn_call.fn = "_parse"
    /\ Len(fn_call.arg) = MaxLines
    /\ fn_call.arg[1] = <<"User-agent", ":", " ", "*">>
    /\ fn_call.arg[MaxLines - 1] = <<"User-agent", ":", " ", "bot">>
    /\ fn_call.arg[MaxLines] = <<"disallow", ":", "/">>
    /\ fn_call.result.disallows = <<>>

\* C31: a regex item whose pattern does not compile is skipped and
\* changes nothing else: the scan returns its tags, and they are the tags
\* of the literal keywords followed by the tags of the regex items that
\* compile, the same as for the configuration without the invalid items.
C31_InvalidRegexSkipped ==
    fn_call.fn = "_check_negative_keywords" =>
        LET content_norm == _normalize_text(fn_call.arg[1])
            title_norm == _normalize_text(fn_call.arg[2])
            valid == SelectSeq(keywords_cfg.regex_keywords,
                               LAMBDA item : ~re_error(item.pattern))
            tags == fn_call.result
        IN  /\ tags = scan_keywords(keywords_cfg.global_keywords
                                        \o _get_domain_keywords(fn_call.arg[3]),
                                    content_norm, title_norm)
                      \o scan_regex(compile_items(valid), content_norm,
                                    title_norm)
            /\ \A i \in DOMAIN tags :
                  tags[i][1] \in {"REGEX_CONTENT", "REGEX_TITLE"} =>
                      /\ ~re_error(tags[i][2])
                      /\ \E j \in DOMAIN valid : valid[j].pattern = tags[i][2]

\* the regex "(" that does not compile stands before the regex "ok": the
\* keyword "d n" and the regex "ok" are reported on the body "D N ok"
C31_Witness ==
    /\ fn_call.fn = "_check_negative_keywords"
    /\ keywords_cfg.global_keywords = << <<"d", " ", "n">> >>
    /\ Len(keywords_cfg.regex_keywords) = 2
    /\ keywords_cfg.regex_keywords[1].pattern = <<"(">>
    /\ keywords_cfg.regex_keywords[2].pattern = <<"o", "k">>
    /\ keywords_cfg.settings.case_insensitive
    /\ fn_call.arg[1] = <<"D", " ", "N", " ", "o", "k">>
    /\ fn_call.result = << <<"CONTENT", <<"d", " ", "n">> >>,
                           <<"REGEX_CONTENT", <<"o", "k">> >> >>

\* C32: with snapshot cycles repeated for ever and the clock advancing,
\* every endpoint that no robots.txt disallows is probed at some time: it
\* gets a last-result entry.
C32_NoStarvation ==
    \A u \in {EpA.url, EpB.url} : <>(last_result[u] # NoRecord)

\* C33: a check that ends ERROR, HTTP4xx or HTTP5xx has marked its host
\* and its endpoint with the current time; and while the last result of
\* an endpoint is such a failure and one of the two intervals has not
\* elapsed since the marks, a check of that endpoint that robots.txt does
\* not disallow ends SKIPPED with the outcome, the status and the time of
\* that failure as its decoration.
C33_FailureConsumesBudget ==
    [][\A r \in Requests :
          LET q == req[r]
              q2 == req'[r]
              u == q2.ret.url
              h == host_of(u)
              failures == {"ERROR", "HTTP4xx", "HTTP5xx"}
          IN  (q2 # q /\ q2.pc = "returned") =>
                  /\ q2.ret.outcome \in failures =>
                        /\ last_host_check'[h] = mono
                        /\ last_ep_check'[u] = mono
                        /\ {h, u} \subseteq marked'
                  /\ (/\ last_result[u].outcome \in failures
                      /\ q.pc \in {"idle", "returned", "robots"}
                      /\ \/ mono - last_host_check[h] < HOST_MIN_INTERVAL_S
                         \/ mono - last_ep_check[u] < EP_MIN_INTERVAL_S
                      /\ q2.decision # "DISALLOW") =>
                        /\ q2.ret.outcome = "SKIPPED"
                        /\ q2.n.head = 0
                        /\ q2.ret.last_outcome = last_result[u].outcome
                        /\ q2.ret.http = last_result[u].http
                        /\ q2.ret.last_ts = last_result[u].ts]_vars

\* a check has ended SKIPPED one tick after a probe of its endpoint was
\* answered 503, and carries HTTP5xx
C33_Witness ==
    \E r \in Requests :
        /\ Returned(r)
        /\ req[r].ret.outcome = "SKIPPED"
        /\ req[r].ret.last_outcome = "HTTP5xx"
        /\ req[r].ret.http = 503
        /\ mono - last_ep_check[req[r].ret.url] = 1

\* the same after a probe that failed
C33_WitnessError ==
    \E r \in Requests :
        /\ Returned(r)
        /\ req[r].ret.outcome = "SKIPPED"
        /\ req[r].ret.last_outcome = "ERROR"
        /\ req[r].ret.http = None
        /\ mono - last_ep_check[req[r].ret.url] < EP_MIN_INTERVAL_S

\* C34: the outcome of a record agrees with its status: HTTP4xx only with
\* a status in [400,500), HTTP5xx only with a status of 500 or more, and
\* OK, UNSTABLE or UNHEALTHY only with a status in [200,400).
C34_OutcomeAgreesWithStatus ==
    \A r \in Requests :
        LET rec == req[r].ret
        IN  (Returned(r) /\ Probed(rec)) =>
               /\ rec.outcome = "HTTP4xx" =>
                     rec.http # None /\ 400 <= rec.http /\ rec.http < 500
               /\ rec.outcome = "HTTP5xx" =>
                     rec.http # None /\ rec.http >= 500
               /\ rec.outcome \in {"OK", "UNSTABLE", "UNHEALTHY"} =>
                     rec.http # None /\ 200 <= rec.http /\ rec.http < 400

\* C35 as stated: when the primary probe was answered 200 and the content
\* request then failed or brought an empty body, the record has status
\* 200, no matched keyword, no title and no content hash, and is OK or
\* UNSTABLE by the latency of the primary probe.
C35_ContentFailureEmptyRecord ==
    \A r \in Requests :
        LET rec == req[r].ret
            contents == Answers(r, {"content"})
        IN  (/\ Returned(r) /\ Probed(rec)
             /\ Primary(r).status = 200
             /\ contents # <<>>
             /\ contents[1].status = None \/ contents[1].body = <<>>) =>
               /\ rec.http = 200
               /\ rec.matched_keywords = <<>>
               /\ rec.title = <<>>
               /\ rec.content_sha256 = <<>>
               /\ rec.outcome =
                     IF Primary(r).elapsed <= TTFB_SLA_S THEN "OK"
                     ELSE "UNSTABLE"

\* C35: the same, where the content hash is empty when the content
\* request failed and is the digest of the empty text when the body was
\* empty.
C35_ContentFailureNeverFails ==
    \A r \in Requests :
        LET rec == req[r].ret
            contents == Answers(r, {"content"})
        IN  (/\ Returned(r) /\ Probed(rec)
             /\ Primary(r).status = 200
             /\ contents # <<>>
             /\ contents[1].status = None \/ contents[1].body = <<>>) =>
               /\ rec.http = 200
               /\ rec.error = NoneStr
               /\ rec.matched_keywords = <<>>
               /\ rec.title = <<>>
               /\ rec.content_sha256 =
                     IF contents[1].status = None THEN <<>>
                     ELSE <<"sha256">>
               /\ rec.outcome =
                     IF Primary(r).elapsed <= TTFB_SLA_S THEN "OK"
                     ELSE "UNSTABLE"

\* a probe answered 200 later than the SLA, then a failed content
\* request: UNSTABLE with status 200
C35_Witness ==
    \E r \in Requests :
        /\ Returned(r) /\ Probed(req[r].ret)
        /\ Primary(r).status = 200
        /\ Answers(r, {"content"}) # <<>>
        /\ Answers(r, {"content"})[1].status = None
        /\ req[r].ret.outcome = "UNSTABLE"
        /\ req[r].ret.http = 200

\* a probe answered 200, then a page with an empty body: OK with the
\* digest of the empty text
C35_WitnessEmptyBody ==
    \E r \in Requests :
        /\ Returned(r)
        /\ Answers(r, {"content"}) # <<>>
        /\ Answers(r, {"content"})[1].status = 200
        /\ Answers(r, {"content"})[1].body = <<>>
        /\ req[r].ret.outcome = "OK"
        /\ req[r].ret.content_sha256 = <<"sha256">>

\* C36: the robots field of every record check_one returns is the robots
\* decision computed for that check, in lower case: unknown for UNKNOWN,
\* allow for ALLOW, disallow for DISALLOW, whatever the outcome.
C36_RobotsFieldIsDecision ==
    \A r \in Requests :
        Returned(r) =>
            req[r].ret.robots = lower_decision(req[r].decision)

\* C37: robots.txt of a host is fetched at most once per TTL window under
\* every interleaving: a call of check_robots_allow issues no fetch for a
\* host while the fetch of another call for that host is pending, and a
\* fetch that ends does not replace by a different record a cache entry
\* that is less than the TTL older than its call.
C37_OneRobotsFetch ==
    [][\A r \in Requests :
          /\ (req[r].pc # "robots" /\ req'[r].pc = "robots") =>
                \A r2 \in Requests \ {r} :
                    ~(/\ req[r2].pc = "robots"
                      /\ host_of(endpoints[req[r2].idx].url) =
                            host_of(endpoints[req'[r].idx].url))
          /\ (req[r].pc = "robots" /\ req'[r].pc # "robots") =>
                LET h == HostOfCall(r)
                IN  (/\ cache[h] # NoCache
                     /\ req[r].now - cache[h].at < _TTL) =>
                        cache'[h] = cache[h]]_vars

\* C38: in every reachable state the timestamp recorded for an endpoint is
\* at most the timestamp recorded for the host of that endpoint, and no
\* step decreases a recorded timestamp of either map.
C38_StampsOrdered ==
    /\ [](\A u \in DOMAIN last_ep_check :
             last_ep_check[u] <= last_host_check[host_of(u)])
    /\ [][/\ \A u \in DOMAIN last_ep_check :
                last_ep_check'[u] >= last_ep_check[u]
          /\ \A h \in DOMAIN last_host_check :
                last_host_check'[h] >= last_host_check[h]]_vars

\* an endpoint was probed and marked, and a later probe of another
\* endpoint of its host has advanced the timestamp of the host past it
C38_Witness ==
    \E u \in DOMAIN last_ep_check :
        /\ u \in marked
        /\ \E v \in DOMAIN last_ep_check :
              /\ v # u /\ v \in marked
              /\ host_of(v) = host_of(u)
              /\ last_ep_check[v] = last_host_check[host_of(u)]
        /\ last_ep_check[u] < last_host_check[host_of(u)]

====
